---- MODULE Spec2Model ----
(***************************************************************************)
(* Syntax Brawlers combat core: fighters (stats, movement, action state    *)
(* machine, hit/hurt regions), the combat engine and the combo tracker.    *)
(*                                                                         *)
(* Numbers.  The program computes with Python floats; the model uses       *)
(* exact fixed-point integers:                                             *)
(*   time      milliseconds                        (0.8 s   = 800)         *)
(*   stamina   1/SU  of a stamina point            (100     = 100000)      *)
(*   health    1/HU  of a health point             (100     = 10000000)    *)
(*   position  1/PU  of a pixel                    (400 px  = 400000)      *)
(*   modifiers tenths                              (1.0     = 10)          *)
(* Every product the modelled paths compute is exact in these units except *)
(* the knockback decay (x 0.85 per tick), which is truncated to 1/PU px/s. *)
(***************************************************************************)
EXTENDS Integers, Sequences, FiniteSets, TLC

VARIABLES
    fighters,        \* [0..1 -> fighter record]: Game.fighters
    combo_trackers,  \* [0..1 -> tracker record]: CombatEngine.combo_trackers
    hit_buffer,      \* [0..1 -> ms left]: CombatEngine._hit_buffer, by attacker
    cooldown,        \* [0..1 -> ms]: AIController._decision_cooldown
    fight_phase,     \* "ACTIVE" or "KO": the fight phase of the state machine
    outcome,         \* what the last CombatEngine.update returned
    probe,           \* the last API call and what it returned
    yielded,         \* [0..1 -> hits check_hit_against returned for the latest action]
    elapsed,         \* ms of update(dt) since the last ComboTracker.add_hit
    ticks,           \* simulation ticks taken
    calls            \* API calls made

vars == <<fighters, combo_trackers, hit_buffer, cooldown, fight_phase, outcome, probe,
          yielded, elapsed, ticks, calls>>

-----------------------------------------------------------------------------
(* Bounds of the model *)

MaxTicks == 40
MaxRestarts == 1
MaxCalls == 3
MaxUpdates == 8
MaxHits == 3
CloseGap == 60

(* Scales of the fixed-point units *)
SU == 10 * 10 * 10
PU == 10 * 10 * 10
HU == 10 * 10 * 10 * 10 * 10

-----------------------------------------------------------------------------
(* config.py *)

FPS == 60
RING_LEFT == 150
RING_RIGHT == 1130
FIGHTER1_START_X == 400
FIGHTER2_START_X == 880
FIGHTER_WIDTH == 80
MOVEMENT_SPEED == 300
ADVANCE_SPEED == 400
RETREAT_SPEED == 250
KNOCKBACK_FORCE == 150
DEFAULT_MAX_HEALTH == 100
DEFAULT_MAX_STAMINA == 100
DEFAULT_POWER == 10
DEFAULT_SPEED == 10
DEFAULT_DEFENSE == 10
STAMINA_REGEN_RATE == 5
STAMINA_REGEN_IDLE_BONUS == 8
EXHAUSTION_THRESHOLD == 20
CRIT_MULTIPLIER == 20
COUNTER_MULTIPLIER == 15
BLOCK_REDUCTION == 7
EXHAUSTION_DAMAGE_PENALTY == 7
HEAD_DAMAGE_MULT == 15
BODY_DAMAGE_MULT == 10
LEGS_DAMAGE_MULT == 8
HIT_STUN_LIGHT == 200
HIT_STUN_HEAVY == 400
BLOCK_STUN == 150

\* Game.run: dt = clock.tick(FPS) / 1000.0, whole milliseconds
DT == 1000 \div FPS

ActionType == {"JAB", "CROSS", "HOOK", "UPPERCUT", "BLOCK", "DODGE", "CLINCH", "IDLE"}
Attacks == {"JAB", "CROSS", "HOOK", "UPPERCUT"}
HitZone == {"head", "body", "legs"}

AD(dmin, dmax, cost, s, a, r, mv, crit, chain) ==
    [damage_min |-> dmin, damage_max |-> dmax, stamina_cost |-> cost,
     startup_frames |-> s, active_frames |-> a, recovery_frames |-> r,
     move_distance |-> mv, crit_bonus |-> crit, can_chain |-> chain]

\* crit_bonus in hundredths; hit_rate, range, stun_chance and breaks_block are
\* never read by the fighter or the engine
ACTION_DATA ==
    [a \in ActionType |->
        CASE a = "JAB"      -> AD(8, 12, 8, 3, 2, 4, 60, 0, 3)
          [] a = "CROSS"    -> AD(18, 25, 18, 5, 3, 6, 80, 0, 1)
          [] a = "HOOK"     -> AD(28, 38, 28, 7, 3, 8, 70, 25, 1)
          [] a = "UPPERCUT" -> AD(35, 45, 35, 9, 4, 10, 50, 15, 1)
          [] a = "BLOCK"    -> AD(0, 0, 12, 2, 30, 4, 0, 0, 1)
          [] a = "DODGE"    -> AD(0, 0, 15, 3, 8, 5, -80, 0, 1)
          [] a = "CLINCH"   -> AD(0, 0, 5, 4, 20, 10, 40, 0, 1)
          [] OTHER          -> AD(0, 0, 0, 0, 0, 0, 0, 0, 1)]

-----------------------------------------------------------------------------
(* Arithmetic helpers *)

Min(a, b) == IF a <= b THEN a ELSE b
Max(a, b) == IF a >= b THEN a ELSE b
Abs(a) == IF a < 0 THEN -a ELSE a
\* float product/quotient truncated toward zero
TruncDiv(a, b) == IF a >= 0 THEN a \div b ELSE -((-a) \div b)

NoTarget == 0 - 1
RING_FLOOR_Y == 480

-----------------------------------------------------------------------------
(* fighters/stats.py: FighterStats, on the stats fields of a fighter record *)

\* FighterStats.can_act
StatsCanAct(f) == ~f.is_stunned /\ f.health > 0

\* FighterStats.update(dt, is_idle)
StatsUpdate(f, dt, is_idle) ==
    LET regen_rate == IF is_idle THEN STAMINA_REGEN_RATE + STAMINA_REGEN_IDLE_BONUS
                      ELSE STAMINA_REGEN_RATE
        stamina == Min(f.max_stamina, f.stamina + regen_rate * dt)
        timer == IF f.stun_timer > 0 THEN f.stun_timer - dt ELSE f.stun_timer
    IN [f EXCEPT !.stamina = stamina,
                 !.is_exhausted = (stamina < EXHAUSTION_THRESHOLD * SU),
                 !.stun_timer = timer,
                 !.is_stunned = IF f.stun_timer > 0 /\ timer <= 0 THEN FALSE ELSE @]

\* take_damage that multiplies a blocked hit by BLOCK_REDUCTION itself
DamageBeforeCap_Swapped(f, base_damage, is_crit, is_counter) ==
    LET d1 == IF is_crit THEN (base_damage * CRIT_MULTIPLIER) \div 10 ELSE base_damage
        d2 == IF is_counter THEN (d1 * COUNTER_MULTIPLIER) \div 10 ELSE d1
        d3 == (d2 * 10) \div f.defense
    IN IF f.is_blocking THEN (d3 * BLOCK_REDUCTION) \div 10 ELSE d3

\* the damage of FighterStats.take_damage before it is capped by health
DamageBeforeCap(f, base_damage, is_crit, is_counter) ==
    LET d1 == IF is_crit THEN (base_damage * CRIT_MULTIPLIER) \div 10 ELSE base_damage
        d2 == IF is_counter THEN (d1 * COUNTER_MULTIPLIER) \div 10 ELSE d1
        d3 == (d2 * 10) \div f.defense
    IN IF f.is_blocking THEN (d3 * (10 - BLOCK_REDUCTION)) \div 10 ELSE d3

\* the statistics take_damage keeps: blocks_successful when blocking,
\* total_damage_taken += int(actual_damage), hits_taken, and combo_count = 0
TrackDamage(f, actual_damage) ==
    [f EXCEPT !.blocks_successful = IF f.is_blocking THEN @ + 1 ELSE @,
              !.total_damage_taken = @ + (actual_damage \div HU),
              !.hits_taken = @ + 1,
              !.combo_count = 0]

\* whether the float take_damage returns lies above the fixed-point value: the
\* factor 1 - BLOCK_REDUCTION is the double 0.30000000000000004, so a blocked
\* damage is a rounding error above 0.3 times the damage (10 gives
\* 3.0000000000000004) unless min(damage, health) replaces it by the health
RoundsAbove(f, damage) == f.is_blocking /\ damage > 0 /\ damage < f.health

\* take_damage without the cap at the remaining health and the floor at 0
TakeDamage_Uncapped(f, base_damage, is_crit, is_counter) ==
    LET actual_damage == DamageBeforeCap(f, base_damage, is_crit, is_counter)
    IN [f |-> [TrackDamage(f, actual_damage) EXCEPT !.health = f.health - actual_damage],
        dealt |-> actual_damage,
        inexact |-> RoundsAbove(f, actual_damage)]

\* FighterStats.take_damage: [f |-> the fighter afterwards, dealt |-> actual damage,
\* inexact |-> the float returned is above dealt by a rounding error]
TakeDamage(f, base_damage, is_crit, is_counter) ==
    LET damage == DamageBeforeCap(f, base_damage, is_crit, is_counter)
        actual_damage == Min(damage, f.health)
    IN [f |-> [TrackDamage(f, actual_damage)
                  EXCEPT !.health = Max(0, f.health - actual_damage)],
        dealt |-> actual_damage,
        inexact |-> RoundsAbove(f, damage)]

\* use_stamina that refuses whenever the cost is not covered in full
UseStamina_AllOrNothing(f, amount) ==
    IF f.stamina >= amount THEN [f |-> [f EXCEPT !.stamina = @ - amount], ok |-> TRUE]
    ELSE [f |-> f, ok |-> FALSE]

\* FighterStats.use_stamina: [f |-> the fighter afterwards, ok |-> return value]
UseStamina(f, amount) ==
    IF f.stamina >= amount THEN [f |-> [f EXCEPT !.stamina = @ - amount], ok |-> TRUE]
    ELSE IF f.stamina > 0 THEN [f |-> [f EXCEPT !.stamina = 0], ok |-> TRUE]
    ELSE [f |-> f, ok |-> FALSE]

\* FighterStats.apply_stun
ApplyStun(f, duration) ==
    [f EXCEPT !.is_stunned = TRUE, !.stun_timer = Max(f.stun_timer, duration)]

\* FighterStats.record_hit(damage), damage in whole points
RecordHit(f, damage) ==
    [f EXCEPT !.total_damage_dealt = @ + damage,
              !.hits_landed = @ + 1,
              !.combo_count = @ + 1,
              !.max_combo = Max(@, f.combo_count + 1)]

\* get_damage_modifier that applies the exhaustion penalty to every fighter
DamageModifier_AlwaysTired(f) == f.power * EXHAUSTION_DAMAGE_PENALTY

\* FighterStats.get_damage_modifier, in hundredths
DamageModifier(f) ==
    IF f.is_exhausted THEN f.power * EXHAUSTION_DAMAGE_PENALTY ELSE f.power * 10

\* FighterStats.get_speed_modifier, in hundredths
SpeedModifier(f) ==
    IF f.is_exhausted THEN f.speed * 8 ELSE f.speed * 10

\* FighterStats.reset
StatsReset(f) ==
    [f EXCEPT !.health = f.max_health, !.stamina = f.max_stamina,
              !.is_blocking = FALSE, !.is_exhausted = FALSE, !.is_stunned = FALSE,
              !.stun_timer = 0, !.combo_count = 0]

\* FighterStats.reset_match
StatsResetMatch(f) ==
    [StatsReset(f) EXCEPT !.total_damage_dealt = 0, !.total_damage_taken = 0,
                          !.hits_landed = 0, !.hits_taken = 0,
                          !.blocks_successful = 0, !.max_combo = 0]

-----------------------------------------------------------------------------
(* fighters/movement.py: MovementController, on the movement fields *)

min_x == (RING_LEFT + FIGHTER_WIDTH \div 2) * PU
max_x == (RING_RIGHT - FIGHTER_WIDTH \div 2) * PU
Clamp(x) == Max(min_x, Min(max_x, x))

\* one step toward target_x at the given speed (the ADVANCING / RETREATING branches)
StepToTarget(f, speed, dt) ==
    IF f.target_x = NoTarget THEN f
    ELSE LET direction == IF f.target_x > f.x THEN 1 ELSE -1
             nx == f.x + direction * speed * dt
             reached == (direction > 0 /\ nx >= f.target_x) \/ (direction < 0 /\ nx <= f.target_x)
         IN IF reached
            THEN [f EXCEPT !.x = f.target_x, !.target_x = NoTarget, !.mstate = "IDLE"]
            ELSE [f EXCEPT !.x = nx]

\* the knockback and the movement of MovementController.update, before the
\* clamp: x is displaced by the knockback velocity, which decays, then by the
\* walk or by the step toward the target
Displaced(f, dt) ==
    LET kv == f.knockback_velocity
        decayed == TruncDiv(kv * 85, 100)
        f1 == IF kv # 0
              THEN [f EXCEPT !.x = @ + TruncDiv(kv * dt, 1000),
                             !.knockback_velocity = IF Abs(decayed) < PU THEN 0 ELSE decayed]
              ELSE f
        forward == IF f1.facing_right THEN 1 ELSE -1
    IN CASE f1.mstate = "WALKING_FORWARD" ->
                [f1 EXCEPT !.x = @ + forward * MOVEMENT_SPEED * dt]
         [] f1.mstate = "WALKING_BACKWARD" ->
                [f1 EXCEPT !.x = @ - forward * MOVEMENT_SPEED * dt]
         [] f1.mstate = "ADVANCING"  -> StepToTarget(f1, ADVANCE_SPEED, dt)
         [] f1.mstate = "RETREATING" -> StepToTarget(f1, RETREAT_SPEED, dt)
         [] OTHER -> f1

\* update that leaves x where the movement put it
MovementUpdate_NoClamp(f, dt, opponent_x) ==
    [Displaced(f, dt) EXCEPT !.facing_right = (opponent_x > Displaced(f, dt).x)]

\* MovementController.update(dt, opponent_x)
MovementUpdate(f, dt, opponent_x) ==
    LET nx == Clamp(Displaced(f, dt).x)
    IN [Displaced(f, dt) EXCEPT !.x = nx, !.facing_right = (opponent_x > nx)]

\* MovementController.walk_forward / walk_backward
Walk(f, forward) ==
    IF f.mstate \in {"KNOCKBACK", "KNOCKED_DOWN"} THEN f
    ELSE [f EXCEPT !.mstate = IF forward THEN "WALKING_FORWARD" ELSE "WALKING_BACKWARD"]

\* MovementController.stop
Stop(f) ==
    IF f.mstate \in {"WALKING_FORWARD", "WALKING_BACKWARD"}
    THEN [f EXCEPT !.mstate = "IDLE"] ELSE f

\* MovementController.set_position(x)
SetPosition(f, x) == [f EXCEPT !.x = Clamp(x)]

\* MovementController.advance(distance), distance in pixels
Advance(f, distance) ==
    LET direction == IF f.facing_right THEN 1 ELSE -1
    IN [f EXCEPT !.target_x = Clamp(f.x + direction * distance * PU), !.mstate = "ADVANCING"]

\* MovementController.retreat(distance)
Retreat(f, distance) ==
    LET direction == IF f.facing_right THEN -1 ELSE 1
    IN [f EXCEPT !.target_x = Clamp(f.x + direction * distance * PU), !.mstate = "RETREATING"]

\* MovementController.apply_knockback(force, from_right), force in 1/PU px/s
ApplyKnockback(f, force, from_right) ==
    [f EXCEPT !.knockback_velocity = IF from_right THEN -force ELSE force,
              !.mstate = "KNOCKBACK"]

-----------------------------------------------------------------------------
(* fighters/hitbox.py.  A rectangle is <<x, y, width, height>>; offsets and   *)
(* sizes are in pixels, positions in 1/PU pixels.                            *)

Box(x_offset, y_offset, width, height, zone) ==
    [x_offset |-> x_offset, y_offset |-> y_offset, width |-> width,
     height |-> height, zone |-> zone]

\* Hitbox.get_rect / Hurtbox.get_rect
GetRect(box, fighter_x, fighter_y, facing_right) ==
    LET x_off == IF facing_right THEN box.x_offset ELSE -box.x_offset - box.width
    IN <<fighter_x + x_off * PU, (fighter_y - box.y_offset - box.height) * PU,
         box.width * PU, box.height * PU>>

\* the AABB test of HurtboxManager.check_hit
Overlaps(r1, r2) ==
    /\ r1[1] < r2[1] + r2[3]
    /\ r1[1] + r1[3] > r2[1]
    /\ r1[2] < r2[2] + r2[4]
    /\ r1[2] + r1[4] > r2[2]

\* Hurtbox.get_damage_mult, in tenths
GetDamageMult(zone) ==
    CASE zone = "head" -> HEAD_DAMAGE_MULT
      [] zone = "body" -> BODY_DAMAGE_MULT
      [] zone = "legs" -> LEGS_DAMAGE_MULT
      [] OTHER -> 10

\* HurtboxManager._hurtbox_sets
HurtboxSets ==
    [idle      |-> <<Box(-15, 120, 30, 30, "head"), Box(-20, 70, 40, 50, "body"),
                     Box(-18, 0, 36, 70, "legs")>>,
     blocking  |-> <<Box(-12, 115, 24, 25, "head"), Box(-25, 60, 50, 55, "body"),
                     Box(-18, 0, 36, 60, "legs")>>,
     crouching |-> <<Box(-15, 70, 30, 25, "head"), Box(-22, 30, 44, 40, "body"),
                     Box(-20, 0, 40, 30, "legs")>>,
     attacking |-> <<Box(-15, 120, 30, 30, "head"), Box(-15, 70, 50, 50, "body"),
                     Box(-18, 0, 36, 70, "legs")>>,
     knockdown |-> <<Box(-50, 0, 100, 30, "body")>>]

\* the priority table of HurtboxManager.check_hit
ZonePriority(zone) ==
    CASE zone = "head" -> 0 [] zone = "body" -> 1 [] zone = "legs" -> 2 [] OTHER -> 99

\* check_hit without the sort: the first overlapped hurtbox in list order
CheckHit_ListOrder(hitbox, hurtboxes, attacker_x, attacker_facing, defender_x, defender_facing) ==
    LET h_rect == GetRect(hitbox, attacker_x, RING_FLOOR_Y, attacker_facing)
        hits == {i \in 1..Len(hurtboxes) :
                    Overlaps(h_rect, GetRect(hurtboxes[i], defender_x, RING_FLOOR_Y,
                                             defender_facing))}
    IN IF hits = {} THEN "none"
       ELSE hurtboxes[CHOOSE i \in hits : \A j \in hits : i <= j].zone

\* HurtboxManager.check_hit: the struck zone, or "none".  hits is the list of
\* overlapped hurtboxes in list order; the stable sort by priority puts first
\* the earliest entry of the smallest priority.
CheckHit(hitbox, hurtboxes, attacker_x, attacker_facing, defender_x, defender_facing) ==
    LET h_rect == GetRect(hitbox, attacker_x, RING_FLOOR_Y, attacker_facing)
        hits == {i \in 1..Len(hurtboxes) :
                    Overlaps(h_rect, GetRect(hurtboxes[i], defender_x, RING_FLOOR_Y,
                                             defender_facing))}
    IN IF hits = {} THEN "none"
       ELSE LET first == CHOOSE i \in hits :
                    \A j \in hits :
                        \/ ZonePriority(hurtboxes[i].zone) < ZonePriority(hurtboxes[j].zone)
                        \/ /\ ZonePriority(hurtboxes[i].zone) = ZonePriority(hurtboxes[j].zone)
                           /\ i <= j
            IN hurtboxes[first].zone

\* AttackHitboxes.create_jab / create_cross / create_hook / create_uppercut
CreateHitbox(action_type, facing_right) ==
    CASE action_type = "JAB" ->
            Box(IF facing_right THEN 30 ELSE -60, 100, 50, 25, "head")
      [] action_type = "CROSS" ->
            Box(IF facing_right THEN 25 ELSE -75, 95, 70, 30, "head")
      [] action_type = "HOOK" ->
            Box(IF facing_right THEN 20 ELSE -70, 90, 60, 40, "head")
      [] action_type = "UPPERCUT" ->
            Box(IF facing_right THEN 15 ELSE -45, 80, 40, 60, "head")
      [] OTHER -> Box(0, 0, 0, 0, "head")

-----------------------------------------------------------------------------
(* fighters/fighter.py: Fighter.  current_action is None when action = "NONE"; *)
(* the ActiveAction fields are then at their rest values.  An attack's hitbox *)
(* is CreateHitbox(action, hitbox_facing).                                    *)

\* Fighter.__init__ with FighterStats() defaults, placed at x
NewFighter(is_player_one, x) ==
    [is_player_one |-> is_player_one,
     power |-> DEFAULT_POWER, speed |-> DEFAULT_SPEED, defense |-> DEFAULT_DEFENSE,
     max_health |-> DEFAULT_MAX_HEALTH * HU, max_stamina |-> DEFAULT_MAX_STAMINA * SU,
     health |-> DEFAULT_MAX_HEALTH * HU, stamina |-> DEFAULT_MAX_STAMINA * SU,
     is_blocking |-> FALSE, is_exhausted |-> FALSE, is_stunned |-> FALSE,
     stun_timer |-> 0, combo_count |-> 0,
     total_damage_dealt |-> 0, total_damage_taken |-> 0, hits_landed |-> 0,
     hits_taken |-> 0, blocks_successful |-> 0, max_combo |-> 0,
     x |-> Clamp(x), facing_right |-> ~is_player_one, mstate |-> "IDLE",
     target_x |-> NoTarget, knockback_velocity |-> 0,
     action |-> "NONE", phase |-> "NONE", frame |-> 0, has_hit |-> FALSE,
     hitbox_active |-> FALSE, hitbox_facing |-> FALSE,
     action_queue |-> <<>>, last_action |-> "NONE", combo_window |-> 0,
     pose |-> "idle"]

\* current_action = None
ClearAction(f) ==
    [f EXCEPT !.action = "NONE", !.phase = "NONE", !.frame = 0, !.has_hit = FALSE,
              !.hitbox_active = FALSE, !.hitbox_facing = FALSE]

\* the part of Fighter.execute_action after the stamina check has passed:
\* create the ActiveAction, the hitbox, the movement and the pose
StartAction(f, action_type) ==
    LET g == [f EXCEPT !.action = action_type, !.phase = "STARTUP", !.frame = 0,
                       !.has_hit = FALSE, !.hitbox_active = FALSE,
                       !.hitbox_facing = IF action_type \in Attacks THEN f.facing_right
                                         ELSE FALSE]
    IN CASE action_type \in Attacks ->
                Advance([g EXCEPT !.pose = "attacking"], ACTION_DATA[action_type].move_distance)
         [] action_type = "BLOCK" -> [g EXCEPT !.is_blocking = TRUE, !.pose = "blocking"]
         [] action_type = "DODGE" ->
                Retreat([g EXCEPT !.pose = "crouching"],
                        Abs(ACTION_DATA[action_type].move_distance))
         [] OTHER -> g

\* a chain test that does not look at the phase of the current action
ChainEligible_AnyPhase(f, action_type) ==
    /\ Len(f.action_queue) < 2
    /\ action_type \in ActionType
    /\ ACTION_DATA[action_type].can_chain > 1

\* whether execute_action puts the action on the chain queue
ChainEligible(f, action_type) ==
    /\ f.phase = "RECOVERY"
    /\ Len(f.action_queue) < 2
    /\ action_type \in ActionType
    /\ ACTION_DATA[action_type].can_chain > 1

\* execute_action that takes the stamina before it looks at whether the fighter
\* can act or is busy
ExecuteAction_PayFirst(f, action_type) ==
    LET paid == UseStamina(f, ACTION_DATA[action_type].stamina_cost * SU)
    IN IF action_type \notin ActionType \/ ~paid.ok THEN [f |-> f, ok |-> FALSE]
       ELSE IF ~StatsCanAct(f) THEN [f |-> paid.f, ok |-> FALSE]
       ELSE IF f.action # "NONE"
       THEN IF ChainEligible(f, action_type)
            THEN [f |-> [f EXCEPT !.action_queue = Append(@, action_type)], ok |-> TRUE]
            ELSE [f |-> paid.f, ok |-> FALSE]
       ELSE [f |-> StartAction(paid.f, action_type), ok |-> TRUE]

\* execute_action that falls back to the IDLE entry for an identifier the catalog
\* does not have
ExecuteAction_DefaultEntry(f, action_type) ==
    IF ~StatsCanAct(f) THEN [f |-> f, ok |-> FALSE]
    ELSE IF f.action # "NONE"
    THEN IF ChainEligible(f, action_type)
         THEN [f |-> [f EXCEPT !.action_queue = Append(@, action_type)], ok |-> TRUE]
         ELSE [f |-> f, ok |-> FALSE]
    ELSE LET known == IF action_type \in ActionType THEN action_type ELSE "IDLE"
             paid == UseStamina(f, ACTION_DATA[known].stamina_cost * SU)
         IN IF ~paid.ok THEN [f |-> f, ok |-> FALSE]
            ELSE [f |-> StartAction(paid.f, known), ok |-> TRUE]

\* Fighter.execute_action: [f |-> the fighter afterwards, ok |-> return value]
ExecuteAction(f, action_type) ==
    IF ~StatsCanAct(f) THEN [f |-> f, ok |-> FALSE]
    ELSE IF f.action # "NONE"
    THEN IF ChainEligible(f, action_type)
         THEN [f |-> [f EXCEPT !.action_queue = Append(@, action_type)], ok |-> TRUE]
         ELSE [f |-> f, ok |-> FALSE]
    ELSE IF action_type \notin ActionType THEN [f |-> f, ok |-> FALSE]
    ELSE LET paid == UseStamina(f, ACTION_DATA[action_type].stamina_cost * SU)
         IN IF ~paid.ok THEN [f |-> f, ok |-> FALSE]
            ELSE [f |-> StartAction(paid.f, action_type), ok |-> TRUE]

\* _complete_action that never looks at the queue
CompleteAction_NoChain(f) ==
    [ClearAction(f) EXCEPT !.last_action = f.action, !.combo_window = 300, !.pose = "idle"]

\* Fighter._complete_action
CompleteAction(f) ==
    LET g == [ClearAction(f) EXCEPT !.last_action = f.action, !.combo_window = 300,
                                    !.pose = "idle"]
    IN IF g.action_queue # <<>>
       THEN ExecuteAction([g EXCEPT !.action_queue = Tail(@)], Head(g.action_queue)).f
       ELSE g

\* _update_action that compares the frame counter before advancing it
UpdateAction_CompareFirst(f) ==
    IF f.action = "NONE" THEN f
    ELSE LET d == ACTION_DATA[f.action]
             frame == f.frame + 1
             armed == f.action \in Attacks
         IN IF f.frame <= d.startup_frames
            THEN [f EXCEPT !.frame = frame, !.phase = "STARTUP", !.hitbox_active = FALSE]
            ELSE IF f.frame <= d.startup_frames + d.active_frames
            THEN [f EXCEPT !.frame = frame, !.phase = "ACTIVE", !.hitbox_active = armed]
            ELSE IF f.frame <= d.startup_frames + d.active_frames + d.recovery_frames
            THEN [f EXCEPT !.frame = frame, !.phase = "RECOVERY", !.hitbox_active = FALSE]
            ELSE CompleteAction([f EXCEPT !.frame = frame])

\* Fighter._update_action
UpdateAction(f) ==
    IF f.action = "NONE" THEN f
    ELSE LET d == ACTION_DATA[f.action]
             frame == f.frame + 1
             armed == f.action \in Attacks
         IN IF frame <= d.startup_frames
            THEN [f EXCEPT !.frame = frame, !.phase = "STARTUP", !.hitbox_active = FALSE]
            ELSE IF frame <= d.startup_frames + d.active_frames
            THEN [f EXCEPT !.frame = frame, !.phase = "ACTIVE", !.hitbox_active = armed]
            ELSE IF frame <= d.startup_frames + d.active_frames + d.recovery_frames
            THEN [f EXCEPT !.frame = frame, !.phase = "RECOVERY", !.hitbox_active = FALSE]
            ELSE CompleteAction([f EXCEPT !.frame = frame])

\* Fighter.update(dt, opponent)
FighterUpdate(f, dt, opponent_x) ==
    LET f1 == MovementUpdate(f, dt, opponent_x)
        f2 == StatsUpdate(f1, dt, f1.action = "NONE")
        f3 == UpdateAction(f2)
        window == f3.combo_window - dt
    IN IF f3.combo_window > 0
       THEN [f3 EXCEPT !.combo_window = window,
                       !.combo_count = IF window <= 0 THEN 0 ELSE @]
       ELSE f3

\* the part of Fighter.receive_hit after stats.take_damage has returned taken:
\* knockback, stun and the cancelling of the current action
HitEffects(taken, raw_damage, attacker_x, is_crit) ==
    LET g == taken.f
        k1 == IF is_crit THEN (KNOCKBACK_FORCE * PU * 15) \div 10 ELSE KNOCKBACK_FORCE * PU
        knockback == IF g.is_blocking THEN (k1 * 3) \div 10 ELSE k1
        pushed == ApplyKnockback(g, knockback, attacker_x > g.x)
        stunned == IF g.is_blocking THEN ApplyStun(pushed, BLOCK_STUN)
                   ELSE IF is_crit \/ taken.dealt >= 30 * HU
                        THEN ApplyStun(pushed, HIT_STUN_HEAVY)
                        ELSE ApplyStun(pushed, HIT_STUN_LIGHT)
        after == IF stunned.action # "NONE" /\ ~stunned.is_blocking
                 THEN ClearAction(stunned) ELSE stunned
    IN [f |-> IF taken.dealt > 0 THEN after ELSE g,
        final_damage |-> taken.dealt, raw_damage |-> raw_damage,
        was_blocked |-> g.is_blocking, inexact |-> taken.inexact]

\* Fighter.receive_hit: [f |-> the defender afterwards, final_damage, raw_damage,
\* was_blocked, inexact]; damage in 1/HU health points
ReceiveHit(f, damage, hit_zone, attacker_x, is_crit, is_counter) ==
    HitEffects(TakeDamage(f, (damage * GetDamageMult(hit_zone)) \div 10, is_crit, is_counter),
               (damage * GetDamageMult(hit_zone)) \div 10, attacker_x, is_crit)

\* the guards of Fighter.check_hit_against and its collision test: the struck
\* zone, or "none"
StruckZone(attacker, opponent) ==
    IF \/ attacker.action = "NONE"
       \/ attacker.action \notin Attacks
       \/ ~attacker.hitbox_active
       \/ attacker.has_hit
    THEN "none"
    ELSE CheckHit(CreateHitbox(attacker.action, attacker.hitbox_facing),
                  HurtboxSets[opponent.pose],
                  attacker.x, attacker.facing_right, opponent.x, opponent.facing_right)

\* check_hit_against that forgets to mark the action as having hit
CheckHitAgainst_Unmarked(attacker, opponent, roll, crit_draw) ==
    LET zone == StruckZone(attacker, opponent)
    IN [hit |-> zone # "none", attacker |-> attacker,
        damage |-> (((roll * HU * DamageModifier(attacker)) \div 100)
                       * GetDamageMult(zone)) \div 10,
        hit_zone |-> zone,
        is_crit |-> crit_draw /\ ACTION_DATA[attacker.action].crit_bonus > 0,
        is_counter |-> opponent.action # "NONE" /\ opponent.phase = "STARTUP",
        action |-> attacker.action]

\* Fighter.check_hit_against, given the random draws: [hit, attacker, damage,
\* hit_zone, is_crit, is_counter, action]
CheckHitAgainst(attacker, opponent, roll, crit_draw) ==
    LET zone == StruckZone(attacker, opponent)
    IN IF zone = "none"
       THEN [hit |-> FALSE, attacker |-> attacker, damage |-> 0, hit_zone |-> "none",
             is_crit |-> FALSE, is_counter |-> FALSE, action |-> attacker.action]
       ELSE [hit |-> TRUE,
             attacker |-> [attacker EXCEPT !.has_hit = TRUE],
             damage |-> (((roll * HU * DamageModifier(attacker)) \div 100)
                            * GetDamageMult(zone)) \div 10,
             hit_zone |-> zone,
             is_crit |-> crit_draw /\ ACTION_DATA[attacker.action].crit_bonus > 0,
             is_counter |-> opponent.action # "NONE" /\ opponent.phase = "STARTUP",
             action |-> attacker.action]

\* reset_round that leaves the chain queue as it is
ResetRound_KeepQueue(f) ==
    LET start_x == IF f.is_player_one THEN FIGHTER1_START_X ELSE FIGHTER2_START_X
        g == StatsReset(ClearAction(f))
    IN [g EXCEPT !.x = Clamp(start_x * PU), !.facing_right = ~f.is_player_one,
                 !.mstate = "IDLE", !.knockback_velocity = 0,
                 !.last_action = "NONE", !.combo_window = 0, !.pose = "idle"]

\* Fighter.reset_round
ResetRound(f) ==
    LET start_x == IF f.is_player_one THEN FIGHTER1_START_X ELSE FIGHTER2_START_X
        g == StatsReset(ClearAction(f))
    IN [g EXCEPT !.x = Clamp(start_x * PU), !.facing_right = ~f.is_player_one,
                 !.mstate = "IDLE", !.knockback_velocity = 0,
                 !.action_queue = <<>>, !.last_action = "NONE", !.combo_window = 0,
                 !.pose = "idle"]

\* Fighter.reset_match
ResetMatch(f) == StatsResetMatch(ResetRound(f))

-----------------------------------------------------------------------------
(* ai/controller.py: the action string of a decision *)

\* action strings a decision source answers with
ActionStrings == {"JAB", "jab", "Hook", "BLOCK", "CLINCH", "kick", ""}

\* str.upper() on the action strings
Upper(str) ==
    CASE str = "jab" -> "JAB"
      [] str = "Hook" -> "HOOK"
      [] str = "kick" -> "KICK"
      [] OTHER -> str

\* the keys of the mapping in _convert_action_string
ConvertKeys == {"JAB", "CROSS", "HOOK", "UPPERCUT", "BLOCK", "DODGE", "IDLE"}

\* AIController._convert_action_string
ConvertActionString(action_str) ==
    IF Upper(action_str) \in ConvertKeys THEN Upper(action_str) ELSE "IDLE"

-----------------------------------------------------------------------------
(* combat/combo.py: ComboTracker *)

combo_timeout == 800

\* COMBO_SEQUENCES, in list order
COMBO_SEQUENCES ==
    << [name |-> "One-Two",      sequence |-> <<"JAB", "CROSS">>],
       [name |-> "Three Piece",  sequence |-> <<"JAB", "CROSS", "HOOK">>],
       [name |-> "The Finisher", sequence |-> <<"JAB", "JAB", "UPPERCUT">>],
       [name |-> "Body Breaker", sequence |-> <<"HOOK", "HOOK", "CROSS">>] >>

\* ComboTracker.__init__
NewTracker ==
    [current_count |-> 0, total_damage |-> 0, hit_sequence |-> <<>>,
     combo_timer |-> 0, active_combo |-> "NONE"]

\* ComboTracker._check_combo_sequence: the name of the first sequence the last
\* hits match, or "NONE"
CheckComboSequence(hit_sequence) ==
    LET n == Len(hit_sequence)
        matches == {k \in 1..Len(COMBO_SEQUENCES) :
                       LET seq == COMBO_SEQUENCES[k].sequence
                       IN /\ n >= Len(seq)
                          /\ SubSeq(hit_sequence, n - Len(seq) + 1, n) = seq}
    IN IF matches = {} THEN "NONE"
       ELSE COMBO_SEQUENCES[CHOOSE k \in matches : \A j \in matches : k <= j].name

\* ComboTracker.add_hit
TrackerAddHit(t, action, damage) ==
    LET seq == Append(t.hit_sequence, action)
        recognized == CheckComboSequence(seq)
    IN [t EXCEPT !.current_count = @ + 1,
                 !.total_damage = @ + damage,
                 !.hit_sequence = seq,
                 !.combo_timer = combo_timeout,
                 !.active_combo = IF recognized # "NONE" THEN recognized ELSE @]

\* ComboTracker.reset
TrackerReset(t) ==
    [t EXCEPT !.current_count = 0, !.total_damage = 0, !.hit_sequence = <<>>,
              !.combo_timer = 0, !.active_combo = "NONE"]

\* update that steps the count down by one when the timer runs out
TrackerUpdate_Decay(t, dt) ==
    IF t.combo_timer > 0
    THEN IF t.combo_timer - dt <= 0
         THEN IF t.current_count > 1
              THEN [t EXCEPT !.current_count = @ - 1, !.combo_timer = combo_timeout]
              ELSE TrackerReset(t)
         ELSE [t EXCEPT !.combo_timer = @ - dt]
    ELSE t

\* update that resets only once the timer is below 0
TrackerUpdate_Strict(t, dt) ==
    IF t.combo_timer > 0
    THEN IF t.combo_timer - dt < 0
         THEN TrackerReset(t)
         ELSE [t EXCEPT !.combo_timer = @ - dt]
    ELSE t

\* ComboTracker.update
TrackerUpdate(t, dt) ==
    IF t.combo_timer > 0
    THEN IF t.combo_timer - dt <= 0
         THEN TrackerReset(t)
         ELSE [t EXCEPT !.combo_timer = @ - dt]
    ELSE t

-----------------------------------------------------------------------------
(* combat/engine.py: CombatEngine.  The engine state threaded through one    *)
(* update is [fighters, trackers, buffer, results].                          *)

hit_buffer_duration == 100

\* CombatEngine._update_hit_buffer: a timer at 0 stands for a deleted key
UpdateHitBuffer(buffer, dt) ==
    [i \in 0..1 |-> IF buffer[i] > 0 /\ buffer[i] - dt > 0 THEN buffer[i] - dt ELSE 0]

\* the part of CombatEngine._process_hit after defender.receive_hit has returned
\* got: the combo tracker, the result record, record_hit and the hit buffer
HitResult(e, info, attacker_idx, defender_idx, got) ==
    LET tracker == TrackerAddHit(e.trackers[attacker_idx], info.action, got.final_damage)
        result == [attacker |-> attacker_idx, defender |-> defender_idx,
                   action |-> info.action, damage |-> got.final_damage,
                   raw_damage |-> got.raw_damage, hit_zone |-> info.hit_zone,
                   is_crit |-> info.is_crit, is_counter |-> info.is_counter,
                   is_blocked |-> got.was_blocked, inexact |-> got.inexact,
                   combo_count |-> tracker.current_count,
                   knockdown |-> (got.f.health <= 0 \/ got.final_damage >= 40 * HU),
                   knocked_down |-> got.final_damage >= 40 * HU]
    IN [fighters |-> [e.fighters EXCEPT ![defender_idx] = got.f,
                                        ![attacker_idx] =
                                            RecordHit(e.fighters[attacker_idx],
                                                      got.final_damage \div HU)],
        trackers |-> [e.trackers EXCEPT ![attacker_idx] = tracker],
        buffer |-> [e.buffer EXCEPT ![attacker_idx] = hit_buffer_duration],
        results |-> Append(e.results, result),
        yields |-> e.yields]

\* CombatEngine._process_hit
ProcessHit(e, info, attacker_idx, defender_idx) ==
    IF e.buffer[attacker_idx] > 0 THEN e
    ELSE HitResult(e, info, attacker_idx, defender_idx,
                   ReceiveHit(e.fighters[defender_idx], info.damage, info.hit_zone,
                              e.fighters[attacker_idx].x, info.is_crit, info.is_counter))

\* one fighter's turn in CombatEngine.update: check_hit_against, then _process_hit
EngineAttack(e, attacker_idx, defender_idx, roll, crit_draw) ==
    LET info == CheckHitAgainst(e.fighters[attacker_idx], e.fighters[defender_idx],
                                roll, crit_draw)
    IN IF info.hit
       THEN ProcessHit([e EXCEPT !.fighters[attacker_idx] = info.attacker,
                                 !.yields = @ \cup {attacker_idx}],
                       info, attacker_idx, defender_idx)
       ELSE e

\* update that checks the two fighters in an order that is not the same in every
\* run of the program, as iterating over a set of them would
EngineUpdate_RunOrder(fs, trackers, buffer, dt, rolls, crits) ==
    LET e0 == [fighters |-> fs,
               trackers |-> [i \in 0..1 |-> TrackerUpdate(trackers[i], dt)],
               buffer |-> UpdateHitBuffer(buffer, dt),
               results |-> <<>>, yields |-> {}]
        first == IF calls = 0 THEN 0 ELSE 1
        e1 == EngineAttack(e0, first, 1 - first, rolls[first], crits[first])
    IN EngineAttack(e1, 1 - first, first, rolls[1 - first], crits[1 - first])

\* CombatEngine.update(dt, fighters), given the random draws of both fighters
EngineUpdate(fs, trackers, buffer, dt, rolls, crits) ==
    LET e0 == [fighters |-> fs,
               trackers |-> [i \in 0..1 |-> TrackerUpdate(trackers[i], dt)],
               buffer |-> UpdateHitBuffer(buffer, dt),
               results |-> <<>>, yields |-> {}]
        e1 == EngineAttack(e0, 0, 1, rolls[0], crits[0])
    IN EngineAttack(e1, 1, 0, rolls[1], crits[1])

\* CombatEngine._combine_results: the type of the returned dict
CombineType(results) ==
    IF Len(results) = 0 THEN "none" ELSE IF Len(results) = 1 THEN "hit" ELSE "trade"

-----------------------------------------------------------------------------
(* ai/controller.py: AIController, on its decision cooldown *)

min_decision_interval == 500

\* what the provider can answer: an action the mapping of _convert_action_string
\* knows, anything else (mapped to IDLE), or no response ("NONE")
Responses == {"JAB", "CROSS", "HOOK", "UPPERCUT", "BLOCK", "DODGE", "IDLE", "NONE"}

\* AIController.update
ControllerUpdate(cd, dt) == IF cd > 0 THEN cd - dt ELSE cd

\* Fighter.can_act
FighterCanAct(f) == StatsCanAct(f) /\ f.action = "NONE"

\* AIController.get_action: whether the provider is queried
Queries(f, cd) == FighterCanAct(f) /\ cd <= 0

-----------------------------------------------------------------------------
(* core/game.py: Game._update_fighting drives the controllers, both fighters *)
(* and the engine.                                                           *)

Pair(a, b) == [i \in 0..1 |-> IF i = 0 THEN a ELSE b]

NoProbe == [op |-> "none"]
NoOutcome == [type |-> "none", hits |-> <<>>, overlap |-> Pair(FALSE, FALSE)]

\* the values random.randint(damage_min, damage_max) is drawn from: both ends
Rolls(f) ==
    IF f.action \in Attacks /\ f.hitbox_active /\ ~f.has_hit
    THEN {ACTION_DATA[f.action].damage_min, ACTION_DATA[f.action].damage_max}
    ELSE {0}

\* the outcomes of random.random() < crit_bonus
Crits(f) ==
    IF f.action \in Attacks /\ f.hitbox_active /\ ~f.has_hit
       /\ ACTION_DATA[f.action].crit_bonus > 0
    THEN BOOLEAN ELSE {FALSE}

\* main.py: the two fighters of a match, FighterStats(power=1.1, ...) and
\* FighterStats(power=0.9, ...)
MatchFighters(x2) ==
    Pair([NewFighter(TRUE, FIGHTER1_START_X * PU) EXCEPT !.power = 11, !.speed = 9],
         [NewFighter(FALSE, x2) EXCEPT !.power = 9, !.speed = 11])

\* a fight some seconds old: fighter 2 has jabbed its way from its corner to
\* CloseGap pixels from fighter 1, nothing has landed, both have recovered and
\* face each other, and both controllers' cooldowns have run down
CloseFighters ==
    LET fs == MatchFighters((FIGHTER1_START_X + CloseGap) * PU)
    IN [fs EXCEPT ![0].facing_right = TRUE,
                  ![1].facing_right = FALSE, ![1].last_action = "JAB"]

\* the cooldown a controller is left with 0.5 s and more after a query
SpentCooldown == min_decision_interval - ((min_decision_interval \div DT) + 1) * DT

Init ==
    /\ \/ /\ fighters = MatchFighters(FIGHTER2_START_X * PU)
          /\ cooldown = Pair(0, 0)
       \/ /\ fighters = CloseFighters
          /\ cooldown = Pair(SpentCooldown, SpentCooldown)
    /\ combo_trackers = Pair(NewTracker, NewTracker)
    /\ hit_buffer = Pair(0, 0)
    /\ fight_phase = "ACTIVE"
    /\ outcome = NoOutcome
    /\ probe = NoProbe
    /\ yielded = Pair(0, 0)
    /\ elapsed = 0
    /\ ticks = 0
    /\ calls = 0

\* the controller part of the ACTIVE branch for fighter i: ai.update, get_action
\* and execute_action of the answer r
Decide(f, r) ==
    IF r = "NONE" THEN f ELSE ExecuteAction(f, r).f

\* Game._handle_knockdown_end for the results of a tick: the knocked-down
\* fighter of the first result that names one gets up
AfterKnockdown(fs, results) ==
    LET named == {k \in 1..Len(results) : results[k].knocked_down}
    IN IF named = {} THEN fs
       ELSE LET k == CHOOSE j \in named : \A m \in named : j <= m
                d == results[k].defender
            IN IF fs[d].health > 20 * HU THEN [fs EXCEPT ![d].mstate = "IDLE"] ELSE fs

\* whether the fight leaves the ACTIVE phase for good after these results:
\* _check_round_end (a fighter at health 0) or a knockdown that is not got up from
EndsFight(fs, results) ==
    \/ \E i \in 0..1 : fs[i].health <= 0
    \/ \E k \in 1..Len(results) :
          /\ results[k].knocked_down
          /\ \A j \in 1..(k - 1) : ~results[j].knocked_down
          /\ fs[results[k].defender].health <= 20 * HU

\* the end of the ACTIVE branch: what CombatEngine.update (e) did to the updated
\* fighters fs, _handle_combat_result and _check_round_end
TickResolve(fs, started, e) ==
    /\ fighters' = AfterKnockdown(e.fighters, e.results)
    /\ combo_trackers' = e.trackers
    /\ hit_buffer' = e.buffer
    /\ fight_phase' = IF EndsFight(e.fighters, e.results) THEN "KO" ELSE "ACTIVE"
    /\ outcome' = [type |-> CombineType(e.results), hits |-> e.results,
                   overlap |-> [i \in 0..1 |-> StruckZone(fs[i], fs[1 - i]) # "none"]]
    /\ yielded' = [i \in 0..1 |->
                     (IF started[i] \/ (fs[i].action # "NONE" /\ fs[i].frame = 0)
                      THEN 0 ELSE yielded[i])
                     + (IF i \in e.yields THEN 1 ELSE 0)]

\* combat_engine.update(dt, fighters) on the updated fighters fs, with its draws
TickCombat(fs, started) ==
    \E k0 \in Rolls(fs[0]), c0 \in Crits(fs[0]), k1 \in Rolls(fs[1]), c1 \in Crits(fs[1]) :
        TickResolve(fs, started,
                    EngineUpdate(fs, combo_trackers, hit_buffer, DT,
                                 Pair(k0, k1), Pair(c0, c1)))

\* fighters[0].update(dt, fighters[1]) has given f0; fighters[1].update(dt, fighters[0])
TickSecond(f0, d1, started) ==
    TickCombat(Pair(f0, FighterUpdate(d1, DT, f0.x)), started)

\* the fighters d0 and d1 the controllers left: both update, then the engine
TickFighters(d0, d1) ==
    TickSecond(FighterUpdate(d0, DT, d1.x), d1,
               Pair(d0.action # "NONE" /\ fighters[0].action = "NONE",
                    d1.action # "NONE" /\ fighters[1].action = "NONE"))

\* the controllers' cooldowns after ai.update(dt) and get_action
TickControllers(cd) ==
    /\ \E r0 \in (IF Queries(fighters[0], cd[0]) THEN Responses ELSE {"NONE"}),
          r1 \in (IF Queries(fighters[1], cd[1]) THEN Responses ELSE {"NONE"}) :
            TickFighters(Decide(fighters[0], r0), Decide(fighters[1], r1))
    /\ cooldown' = [i \in 0..1 |->
                      IF Queries(fighters[i], cd[i]) THEN min_decision_interval ELSE cd[i]]

\* Game._update_fighting, ACTIVE branch: the controllers decide, both fighters
\* update, then CombatEngine.update and the round-end check
Tick ==
    /\ fight_phase = "ACTIVE"
    /\ ticks < MaxTicks
    /\ TickControllers([i \in 0..1 |-> ControllerUpdate(cooldown[i], DT)])
    /\ probe' = NoProbe
    /\ ticks' = ticks + 1
    /\ UNCHANGED <<elapsed, calls>>

\* Game._enter_pre_fight / _update_round_end: fighter.reset_round() for both, after
\* a knockout or on a restart from the pause menu
Reset ==
    /\ fight_phase = "KO" \/ calls < MaxRestarts
    /\ fighters' = [i \in 0..1 |-> ResetRound(fighters[i])]
    /\ fight_phase' = "ACTIVE"
    /\ probe' = [op |-> "reset"]
    /\ calls' = calls + 1
    /\ UNCHANGED <<combo_trackers, hit_buffer, cooldown, outcome, yielded, elapsed, ticks>>

Next ==
    \/ Tick
    \/ Reset

Spec == Init /\ [][Next]_vars

-----------------------------------------------------------------------------
(* One fighter driven through its public operations in any order:            *)
(* execute_action, update, receive_hit and reset_round on fighters[0], with  *)
(* fighters[1] standing still as the opponent.                               *)

\* stamina (in points) the fighter is picked up with
StaminaLevels == {0, 5, 100}

\* the hits receive_hit is called with: damage in points before the zone multiplier
HitInputs ==
    { [damage |-> 10, zone |-> "body", is_crit |-> FALSE, is_counter |-> FALSE],
      [damage |-> 10, zone |-> "head", is_crit |-> TRUE, is_counter |-> FALSE],
      [damage |-> 30, zone |-> "legs", is_crit |-> FALSE, is_counter |-> TRUE],
      [damage |-> 200, zone |-> "head", is_crit |-> FALSE, is_counter |-> FALSE] }

InitFighter ==
    /\ \E st \in StaminaLevels :
          fighters = [CloseFighters
                        EXCEPT ![0].stamina = st * SU,
                               ![0].is_exhausted = (st < EXHAUSTION_THRESHOLD)]
    /\ combo_trackers = Pair(NewTracker, NewTracker)
    /\ hit_buffer = Pair(0, 0)
    /\ cooldown = Pair(0, 0)
    /\ fight_phase = "ACTIVE"
    /\ outcome = NoOutcome
    /\ probe = NoProbe
    /\ yielded = Pair(0, 0)
    /\ elapsed = 0
    /\ ticks = 0
    /\ calls = 0

\* fighter.execute_action(a)
CallExecute(a) ==
    /\ calls < MaxCalls
    /\ LET r == ExecuteAction(fighters[0], a)
       IN /\ fighters' = [fighters EXCEPT ![0] = r.f]
          /\ probe' = [op |-> "execute", action |-> a, ok |-> r.ok,
                       before |-> fighters[0]]
    /\ calls' = calls + 1
    /\ UNCHANGED <<combo_trackers, hit_buffer, cooldown, fight_phase, outcome, yielded,
                   elapsed, ticks>>

\* identifiers that are not in the catalog
UnknownActions == {"KICK", "TAUNT"}

\* fighter.execute_action(a) with an identifier the catalog does not have
CallExecuteUnknown(a) ==
    /\ calls < MaxCalls
    /\ LET r == ExecuteAction(fighters[0], a)
       IN /\ fighters' = [fighters EXCEPT ![0] = r.f]
          /\ probe' = [op |-> "execute_unknown", action |-> a, ok |-> r.ok,
                       before |-> fighters[0]]
    /\ calls' = calls + 1
    /\ UNCHANGED <<combo_trackers, hit_buffer, cooldown, fight_phase, outcome, yielded,
                   elapsed, ticks>>

\* the game loop's use of a decision: the answer's action string is converted
\* and the fighter executes the result
CallDecision(str) ==
    /\ calls < MaxCalls
    /\ FighterCanAct(fighters[0])
    /\ LET r == ExecuteAction(fighters[0], ConvertActionString(str))
       IN /\ fighters' = [fighters EXCEPT ![0] = r.f]
          /\ probe' = [op |-> "decision", string |-> str,
                       action |-> ConvertActionString(str), ok |-> r.ok,
                       before |-> fighters[0]]
    /\ calls' = calls + 1
    /\ UNCHANGED <<combo_trackers, hit_buffer, cooldown, fight_phase, outcome, yielded,
                   elapsed, ticks>>

\* fighter.update(dt, opponent)
CallUpdate ==
    /\ ticks < MaxUpdates
    /\ fighters' = [fighters EXCEPT ![0] = FighterUpdate(fighters[0], DT, fighters[1].x)]
    /\ probe' = [op |-> "update"]
    /\ ticks' = ticks + 1
    /\ UNCHANGED <<combo_trackers, hit_buffer, cooldown, fight_phase, outcome, yielded,
                   elapsed, calls>>

\* fighter.receive_hit(damage, zone, attacker_x, is_crit, is_counter)
CallReceiveHit(h) ==
    /\ calls < MaxCalls
    /\ LET r == ReceiveHit(fighters[0], h.damage * HU, h.zone, fighters[1].x,
                           h.is_crit, h.is_counter)
       IN /\ fighters' = [fighters EXCEPT ![0] = r.f]
          /\ probe' = [op |-> "receive_hit", final_damage |-> r.final_damage,
                       before |-> fighters[0]]
    /\ calls' = calls + 1
    /\ UNCHANGED <<combo_trackers, hit_buffer, cooldown, fight_phase, outcome, yielded,
                   elapsed, ticks>>

\* fighter.stats.record_hit(damage), as the engine calls it for a landed hit
CallRecordHit(d) ==
    /\ calls < MaxCalls
    /\ fighters' = [fighters EXCEPT ![0] = RecordHit(fighters[0], d)]
    /\ probe' = [op |-> "record_hit"]
    /\ calls' = calls + 1
    /\ UNCHANGED <<combo_trackers, hit_buffer, cooldown, fight_phase, outcome, yielded,
                   elapsed, ticks>>

\* fighter.reset_round()
CallResetRound ==
    /\ calls < MaxCalls
    /\ fighters' = [fighters EXCEPT ![0] = ResetRound(fighters[0])]
    /\ probe' = [op |-> "reset_round", before |-> fighters[0]]
    /\ calls' = calls + 1
    /\ UNCHANGED <<combo_trackers, hit_buffer, cooldown, fight_phase, outcome, yielded,
                   elapsed, ticks>>

\* fighter.reset_match()
CallResetMatch ==
    /\ calls < MaxCalls
    /\ fighters' = [fighters EXCEPT ![0] = ResetMatch(fighters[0])]
    /\ probe' = [op |-> "reset_match", before |-> fighters[0]]
    /\ calls' = calls + 1
    /\ UNCHANGED <<combo_trackers, hit_buffer, cooldown, fight_phase, outcome, yielded,
                   elapsed, ticks>>

NextFighter ==
    \/ \E a \in ActionType : CallExecute(a)
    \/ \E a \in UnknownActions : CallExecuteUnknown(a)
    \/ \E str \in ActionStrings : CallDecision(str)
    \/ CallUpdate
    \/ \E h \in HitInputs : CallReceiveHit(h)
    \/ CallRecordHit(12)
    \/ CallResetRound
    \/ CallResetMatch

SpecFighter == InitFighter /\ [][NextFighter]_vars

-----------------------------------------------------------------------------
(* One ComboTracker driven through add_hit, update and reset in any order:   *)
(* combo_trackers[0].                                                        *)

\* the frame times update is called with, in ms: a frame at FPS and a long one
TrackerDts == {DT, 400}

\* the damage add_hit is called with, in points
TrackerDamages == {0, 10}

InitCombo ==
    /\ fighters = MatchFighters(FIGHTER2_START_X * PU)
    /\ combo_trackers = Pair(NewTracker, NewTracker)
    /\ hit_buffer = Pair(0, 0)
    /\ cooldown = Pair(0, 0)
    /\ fight_phase = "ACTIVE"
    /\ outcome = NoOutcome
    /\ probe = NoProbe
    /\ yielded = Pair(0, 0)
    /\ elapsed = 0
    /\ ticks = 0
    /\ calls = 0

\* tracker.add_hit(action, damage)
CallAddHit(a, d) ==
    /\ calls < MaxHits
    /\ combo_trackers' = [combo_trackers EXCEPT ![0] = TrackerAddHit(@, a, d * HU)]
    /\ probe' = [op |-> "add_hit", before |-> combo_trackers[0].current_count]
    /\ elapsed' = 0
    /\ calls' = calls + 1
    /\ UNCHANGED <<fighters, hit_buffer, cooldown, fight_phase, outcome, yielded, ticks>>

\* tracker.update(dt)
CallTrackerUpdate(dt) ==
    /\ combo_trackers' = [combo_trackers EXCEPT ![0] = TrackerUpdate(@, dt)]
    /\ probe' = [op |-> "update", before |-> combo_trackers[0].current_count]
    /\ elapsed' = Min(elapsed + dt, 2 * combo_timeout)
    /\ UNCHANGED <<fighters, hit_buffer, cooldown, fight_phase, outcome, yielded, ticks,
                   calls>>

\* tracker.reset()
CallTrackerReset ==
    /\ combo_trackers' = [combo_trackers EXCEPT ![0] = TrackerReset(@)]
    /\ probe' = [op |-> "reset", before |-> combo_trackers[0].current_count]
    /\ UNCHANGED <<fighters, hit_buffer, cooldown, fight_phase, outcome, yielded,
                   elapsed, ticks, calls>>

NextCombo ==
    \/ \E a \in Attacks, d \in TrackerDamages : CallAddHit(a, d)
    \/ \E dt \in TrackerDts : CallTrackerUpdate(dt)
    \/ CallTrackerReset

SpecCombo == InitCombo /\ [][NextCombo]_vars

-----------------------------------------------------------------------------
(* HurtboxManager.check_hit as a function of its inputs: the inputs are      *)
(* drawn, then the call is made.                                             *)

\* hit-regions: any box of these offsets and sizes, and the boxes of the attacks
HitRegions ==
    {Box(xo, yo, 50, h, "head") : xo \in {0 - 40, 30}, yo \in {0, 50, 100}, h \in {25, 80}}
        \cup {CreateHitbox(a, f) : a \in Attacks, f \in BOOLEAN}

\* the lists of distinct entries of seq, in every order
RECURSIVE Arrangements(_)
Arrangements(boxes) ==
    IF boxes = {} THEN {<<>>}
    ELSE {<<>>} \cup
         UNION {{<<b>> \o rest : rest \in Arrangements(boxes \ {b})} : b \in boxes}

Range(seq) == {seq[i] : i \in 1..Len(seq)}

\* hurt-region lists: the boxes of a pose of HurtboxSets, any of them, in any order
HurtLists ==
    UNION {Arrangements(Range(HurtboxSets[pose])) :
              pose \in {"idle", "blocking", "crouching", "attacking"}}

\* distance in pixels from the attacker to the defender
HitGaps == {40, 90, 200}

InitHit ==
    /\ fighters = MatchFighters(FIGHTER2_START_X * PU)
    /\ combo_trackers = Pair(NewTracker, NewTracker)
    /\ hit_buffer = Pair(0, 0)
    /\ cooldown = Pair(0, 0)
    /\ fight_phase = "ACTIVE"
    /\ outcome = NoOutcome
    /\ \E hb \in HitRegions, hl \in HurtLists, gap \in HitGaps, af \in BOOLEAN, df \in BOOLEAN :
          probe = [op |-> "check_hit", done |-> FALSE, hitbox |-> hb, hurtboxes |-> hl,
                   attacker_x |-> FIGHTER1_START_X * PU, attacker_facing |-> af,
                   defender_x |-> (FIGHTER1_START_X + gap) * PU, defender_facing |-> df,
                   result |-> "none"]
    /\ yielded = Pair(0, 0)
    /\ elapsed = 0
    /\ ticks = 0
    /\ calls = 0

\* hurtbox_manager.check_hit(hitbox, attacker_pos, attacker_facing, defender_pos,
\* defender_facing)
CallCheckHit ==
    /\ probe.op = "check_hit" /\ ~probe.done
    /\ probe' = [probe EXCEPT !.done = TRUE,
                              !.result = CheckHit(probe.hitbox, probe.hurtboxes,
                                                  probe.attacker_x, probe.attacker_facing,
                                                  probe.defender_x, probe.defender_facing)]
    /\ UNCHANGED <<fighters, combo_trackers, hit_buffer, cooldown, fight_phase, outcome,
                   yielded, elapsed, ticks, calls>>

NextHit == CallCheckHit

SpecHit == InitHit /\ [][NextHit]_vars

-----------------------------------------------------------------------------
(* One hit landing on a defender, guarding and not guarding: the inputs are  *)
(* drawn, then receive_hit is called on both.                                *)

\* remaining health of the defender, in points
HealthLevels == {1, 5, 50, 100}

\* the attacks whose catalog entry does not set breaks_block
NonGuardBreaking == {"JAB", "HOOK", "UPPERCUT"}

\* the defender of the comparison: guarding is stats.is_blocking with the BLOCK
\* action and pose
Defender(health, guarding) ==
    LET d == [CloseFighters[1] EXCEPT !.health = health * HU]
    IN IF guarding
       THEN [d EXCEPT !.is_blocking = TRUE, !.pose = "blocking", !.action = "BLOCK",
                      !.phase = "ACTIVE", !.frame = 3]
       ELSE d

\* the damage Fighter.check_hit_against hands to receive_hit for a roll and a zone
HitDamage(attacker, roll, zone) ==
    (((roll * HU * DamageModifier(attacker)) \div 100) * GetDamageMult(zone)) \div 10

InitDamage ==
    /\ fighters = CloseFighters
    /\ combo_trackers = Pair(NewTracker, NewTracker)
    /\ hit_buffer = Pair(0, 0)
    /\ cooldown = Pair(0, 0)
    /\ fight_phase = "ACTIVE"
    /\ outcome = NoOutcome
    /\ \E a \in NonGuardBreaking, z \in HitZone, cr \in BOOLEAN, co \in BOOLEAN,
          h \in HealthLevels :
          \E roll \in {ACTION_DATA[a].damage_min, ACTION_DATA[a].damage_max} :
             probe = [op |-> "receive_hit", done |-> FALSE, action |-> a, roll |-> roll,
                      zone |-> z, is_crit |-> cr, is_counter |-> co, health |-> h,
                      guarded |-> 0, unguarded |-> 0, uncapped |-> 0]
    /\ yielded = Pair(0, 0)
    /\ elapsed = 0
    /\ ticks = 0
    /\ calls = 0

\* defender.receive_hit(damage, zone, attacker.x, is_crit, is_counter) on the
\* guarding and on the not guarding defender
CallReceiveBoth ==
    /\ probe.op = "receive_hit" /\ ~probe.done
    /\ LET damage == HitDamage(fighters[0], probe.roll, probe.zone)
           hit(guarding) == ReceiveHit(Defender(probe.health, guarding), damage, probe.zone,
                                       fighters[0].x, probe.is_crit, probe.is_counter)
       IN probe' = [probe EXCEPT
                       !.done = TRUE,
                       !.guarded = hit(TRUE).final_damage,
                       !.unguarded = hit(FALSE).final_damage,
                       !.uncapped = DamageBeforeCap(Defender(probe.health, FALSE),
                                                    hit(FALSE).raw_damage,
                                                    probe.is_crit, probe.is_counter)]
    /\ UNCHANGED <<fighters, combo_trackers, hit_buffer, cooldown, fight_phase, outcome,
                   yielded, elapsed, ticks, calls>>

NextDamage == CallReceiveBoth

SpecDamage == InitDamage /\ [][NextDamage]_vars

-----------------------------------------------------------------------------
(* A bout between two fighters built with FighterStats() defaults, driven    *)
(* through execute_action, Fighter.update and CombatEngine.update: fighter 0 *)
(* (A) attacks, fighter 1 (B) stands, guards or evades.                      *)

MaxBoutTicks == 14
MaxBoutCalls == 2

\* distance in pixels from A to B at the start: at 110 a jab reaches head and
\* body, at 122 the body only, at 150 nothing
BoutGaps == {110, 122, 150}

\* stamina (in points) A starts with
BoutStamina == {15, 100}

\* what each fighter may be told to do
BoutActions == Pair({"JAB", "CROSS", "HOOK"}, {"BLOCK", "DODGE", "JAB"})

\* the values random.randint is drawn from: both ends of the range and 10
BoutRolls(f) ==
    IF f.action \in Attacks /\ f.hitbox_active /\ ~f.has_hit
    THEN Rolls(f) \cup ({10} \cap (ACTION_DATA[f.action].damage_min ..
                                     ACTION_DATA[f.action].damage_max))
    ELSE {0}

InitBout ==
    /\ \E gap \in BoutGaps, st \in BoutStamina :
          fighters = Pair([NewFighter(TRUE, FIGHTER1_START_X * PU)
                              EXCEPT !.facing_right = TRUE, !.stamina = st * SU,
                                     !.is_exhausted = (st < EXHAUSTION_THRESHOLD)],
                          [NewFighter(FALSE, (FIGHTER1_START_X + gap) * PU)
                              EXCEPT !.facing_right = FALSE])
    /\ combo_trackers = Pair(NewTracker, NewTracker)
    /\ hit_buffer = Pair(0, 0)
    /\ cooldown = Pair(0, 0)
    /\ fight_phase = "ACTIVE"
    /\ outcome = NoOutcome
    /\ probe = [op |-> "none", landed |-> <<>>]
    /\ yielded = Pair(0, 0)
    /\ elapsed = 0
    /\ ticks = 0
    /\ calls = 0

\* fighters[i].execute_action(a)
BoutExecute(i, a) ==
    /\ calls < MaxBoutCalls
    /\ LET r == ExecuteAction(fighters[i], a)
       IN /\ fighters' = [fighters EXCEPT ![i] = r.f]
          /\ probe' = [op |-> "execute", who |-> i, action |-> a, ok |-> r.ok,
                       before |-> fighters[i], landed |-> probe.landed]
    /\ calls' = calls + 1
    /\ UNCHANGED <<combo_trackers, hit_buffer, cooldown, fight_phase, outcome, yielded,
                   elapsed, ticks>>

\* A's hits of the results, each with the roll it was drawn with and whether A
\* was exhausted
BoutLanded(fs, rolls, results) ==
    [k \in 1..Len(SelectSeq(results, LAMBDA r : r.attacker = 0)) |->
        [roll |-> rolls[0], exhausted |-> fs[0].is_exhausted, guarded |-> fs[1].is_blocking,
         hit |-> SelectSeq(results, LAMBDA r : r.attacker = 0)[k]]]

\* what CombatEngine.update (e) made of the updated fighters fs with the rolls
BoutResolve(fs, rolls, e) ==
    /\ fighters' = e.fighters
    /\ combo_trackers' = e.trackers
    /\ hit_buffer' = e.buffer
    /\ outcome' = [type |-> CombineType(e.results), hits |-> e.results,
                   overlap |-> [i \in 0..1 |-> StruckZone(fs[i], fs[1 - i]) # "none"]]
    /\ probe' = [op |-> "tick", rolls |-> rolls, before |-> fs,
                 counts |-> [i \in 0..1 |-> TrackerUpdate(combo_trackers[i], DT).current_count],
                 landed |-> probe.landed \o BoutLanded(fs, rolls, e.results)]

\* combat_engine.update(dt, fighters) on the updated fighters fs, with its draws
BoutCombat(fs) ==
    \E k0 \in BoutRolls(fs[0]), c0 \in Crits(fs[0]),
       k1 \in BoutRolls(fs[1]), c1 \in Crits(fs[1]) :
        BoutResolve(fs, Pair(k0, k1),
                    EngineUpdate(fs, combo_trackers, hit_buffer, DT,
                                 Pair(k0, k1), Pair(c0, c1)))

\* fighters[0].update(dt, fighters[1]) has given f0; fighters[1].update(dt, fighters[0])
BoutSecond(f0) == BoutCombat(Pair(f0, FighterUpdate(fighters[1], DT, f0.x)))

\* one frame: both fighters update, then the engine
BoutTick ==
    /\ ticks < MaxBoutTicks
    /\ BoutSecond(FighterUpdate(fighters[0], DT, fighters[1].x))
    /\ ticks' = ticks + 1
    /\ UNCHANGED <<cooldown, fight_phase, yielded, elapsed, calls>>

NextBout ==
    \/ \E i \in 0..1 : \E a \in BoutActions[i] : BoutExecute(i, a)
    \/ BoutTick

SpecBout == InitBout /\ [][NextBout]_vars

-----------------------------------------------------------------------------
(* Two runs of the same fight side by side.  Each tick the first run (the    *)
(* variables fighters, combo_trackers, hit_buffer, outcome) takes a step on  *)
(* freshly chosen inputs, then the second run (probe.second) takes its step  *)
(* on the same inputs; calls is the run whose turn it is.                    *)

MaxTwinTicks == 6

\* the per-tick action inputs of each fighter: an action, or none
TwinActions == Pair({"CROSS", "NONE"}, {"CROSS", "BLOCK", "NONE"})

\* the frame times, in ms: a frame at FPS and a late one
TwinDts == {DT, 2 * DT}

\* random values: u selects the result of randint (low or high end), c is
\* random.random() in hundredths
TwinValues == {[u |-> "low", c |-> 90], [u |-> "high", c |-> 5]}

\* the values the random source yields in a tick, in the order they are drawn
TwinStreams == {<<v, w>> : v \in TwinValues, w \in TwinValues}

\* what check_hit_against makes of a random value for the attacker f
TwinRoll(f, v) ==
    IF f.action \notin Attacks THEN 0
    ELSE IF v.u = "low" THEN ACTION_DATA[f.action].damage_min
    ELSE ACTION_DATA[f.action].damage_max

TwinCrit(f, v) == f.action \in Attacks /\ v.c < ACTION_DATA[f.action].crit_bonus

\* the draws of both fighters from the stream: fighter 1 draws the second
\* value when fighter 0 has drawn the first
TwinDraws(fs, stream) ==
    LET second == IF StruckZone(fs[0], fs[1]) # "none" THEN stream[2] ELSE stream[1]
    IN [rolls |-> Pair(TwinRoll(fs[0], stream[1]), TwinRoll(fs[1], second)),
        crits |-> Pair(TwinCrit(fs[0], stream[1]), TwinCrit(fs[1], second))]

\* CombatEngine.update on the updated fighters fs of a run
TwinEngine(fs, run, inp, d) ==
    EngineUpdate(fs, run.trackers, run.buffer, inp.dt, d.rolls, d.crits)

\* the run after the engine result e on the updated fighters fs
TwinOutcome(fs, e) ==
    [fighters |-> e.fighters, trackers |-> e.trackers, buffer |-> e.buffer,
     outcome |-> [type |-> CombineType(e.results), hits |-> e.results,
                  overlap |-> [i \in 0..1 |-> StruckZone(fs[i], fs[1 - i]) # "none"]]]

\* both fighters' update(dt, opponent), in list order
TwinUpdated(d0, d1, dt) ==
    Pair(FighterUpdate(d0, dt, d1.x),
         FighterUpdate(d1, dt, FighterUpdate(d0, dt, d1.x).x))

TwinResolve(fs, run, inp) ==
    TwinOutcome(fs, TwinEngine(fs, run, inp, TwinDraws(fs, inp.stream)))

\* one tick of a run on the inputs inp: execute_action of the two inputs, both
\* updates, CombatEngine.update
TwinStep(run, inp) ==
    TwinResolve(TwinUpdated(Decide(run.fighters[0], inp.a[0]),
                            Decide(run.fighters[1], inp.a[1]), inp.dt),
                run, inp)

TwinStart ==
    [fighters |-> CloseFighters, trackers |-> Pair(NewTracker, NewTracker),
     buffer |-> Pair(0, 0), outcome |-> NoOutcome]

NoInput == [a |-> Pair("NONE", "NONE"), dt |-> 0, stream |-> <<>>]

InitTwin ==
    /\ fighters = TwinStart.fighters
    /\ combo_trackers = TwinStart.trackers
    /\ hit_buffer = TwinStart.buffer
    /\ outcome = TwinStart.outcome
    /\ probe = [op |-> "twin", inputs |-> NoInput, second |-> TwinStart]
    /\ cooldown = Pair(0, 0)
    /\ fight_phase = "ACTIVE"
    /\ yielded = Pair(0, 0)
    /\ elapsed = 0
    /\ ticks = 0
    /\ calls = 0

\* the first run takes its tick on the inputs inp
TwinApply(inp, r) ==
    /\ fighters' = r.fighters
    /\ combo_trackers' = r.trackers
    /\ hit_buffer' = r.buffer
    /\ outcome' = r.outcome
    /\ probe' = [probe EXCEPT !.inputs = inp]

\* a fighter has an attack out that has not hit yet: only then can a random
\* value be drawn in the tick, and the stream is left unspecified otherwise
TwinMayDraw ==
    \E i \in 0..1 : /\ fighters[i].action \in Attacks
                    /\ ~fighters[i].has_hit
                    /\ fighters[i].phase \in {"STARTUP", "ACTIVE"}

NoStream == <<[u |-> "low", c |-> 90], [u |-> "low", c |-> 90]>>

TwinFirst ==
    /\ calls = 0
    /\ ticks < MaxTwinTicks
    /\ \E a0 \in TwinActions[0], a1 \in TwinActions[1], dt \in TwinDts,
          stream \in (IF TwinMayDraw THEN TwinStreams ELSE {NoStream}) :
          TwinApply([a |-> Pair(a0, a1), dt |-> dt, stream |-> stream],
                    TwinStep([fighters |-> fighters, trackers |-> combo_trackers,
                              buffer |-> hit_buffer],
                             [a |-> Pair(a0, a1), dt |-> dt, stream |-> stream]))
    /\ calls' = 1
    /\ UNCHANGED <<cooldown, fight_phase, yielded, elapsed, ticks>>

\* the second run takes the same tick on the same inputs
TwinSecond ==
    /\ calls = 1
    /\ probe' = [probe EXCEPT !.second = TwinStep(probe.second, probe.inputs)]
    /\ calls' = 0
    /\ ticks' = ticks + 1
    /\ UNCHANGED <<fighters, combo_trackers, hit_buffer, cooldown, fight_phase, outcome,
                   yielded, elapsed>>

NextTwin ==
    \/ TwinFirst
    \/ TwinSecond

SpecTwin == InitTwin /\ [][NextTwin]_vars

-----------------------------------------------------------------------------
(* Two fighters with the same base speed start the same action in the same   *)
(* tick and are updated together.  Fighter 0 may start low on stamina, may   *)
(* chain further actions during RECOVERY and may be hit once; fighter 1 is   *)
(* left alone.  ticks counts the updates since the action was started.       *)

MaxPhaseTicks == 38
MaxPhaseCalls == 3

\* stamina (in points) fighter 0 starts the action with
PhaseStamina == {5, 30, 100}

\* actions requested during RECOVERY
PhaseChains == {"JAB", "CROSS"}

\* the hit fighter 0 may receive: damage in points, to the body
PhaseHits == {10}

InitPhases ==
    /\ \E st \in PhaseStamina :
          fighters = [MatchFighters(FIGHTER2_START_X * PU)
                        EXCEPT ![0].power = DEFAULT_POWER, ![0].speed = DEFAULT_SPEED,
                               ![1].power = DEFAULT_POWER, ![1].speed = DEFAULT_SPEED,
                               ![0].stamina = st * SU,
                               ![0].is_exhausted = (st < EXHAUSTION_THRESHOLD)]
    /\ combo_trackers = Pair(NewTracker, NewTracker)
    /\ hit_buffer = Pair(0, 0)
    /\ cooldown = Pair(0, 0)
    /\ fight_phase = "ACTIVE"
    /\ outcome = NoOutcome
    /\ probe = [op |-> "init", action |-> "NONE", interrupted |-> FALSE, hits |-> 0,
                tired |-> FALSE, before |-> NewFighter(TRUE, 0)]
    /\ yielded = Pair(0, 0)
    /\ elapsed = 0
    /\ ticks = 0
    /\ calls = 0

\* both fighters' execute_action(a), accepted
PhaseStart(a) ==
    /\ calls = 0
    /\ ExecuteAction(fighters[0], a).ok /\ ExecuteAction(fighters[1], a).ok
    /\ fighters' = [i \in 0..1 |-> ExecuteAction(fighters[i], a).f]
    /\ probe' = [probe EXCEPT !.op = "start", !.action = a, !.before = fighters[0],
                              !.tired = fighters[0].is_exhausted]
    /\ calls' = 1
    /\ UNCHANGED <<combo_trackers, hit_buffer, cooldown, fight_phase, outcome, yielded,
                   elapsed, ticks>>

\* both fighters' update(dt, opponent)
PhaseUpdate ==
    /\ calls > 0
    /\ ticks < MaxPhaseTicks
    /\ fighters' = [i \in 0..1 |-> FighterUpdate(fighters[i], DT, fighters[1 - i].x)]
    /\ probe' = [probe EXCEPT !.op = "update", !.before = fighters[0],
                              !.tired = @ /\ fighters'[0].is_exhausted]
    /\ ticks' = ticks + 1
    /\ UNCHANGED <<combo_trackers, hit_buffer, cooldown, fight_phase, outcome, yielded,
                   elapsed, calls>>

\* fighter 0's execute_action(a) while its current action is in RECOVERY
PhaseChain(a) ==
    /\ calls > 0 /\ calls < MaxPhaseCalls
    /\ fighters[0].action # "NONE" /\ fighters[0].phase = "RECOVERY"
    /\ fighters' = [fighters EXCEPT ![0] = ExecuteAction(fighters[0], a).f]
    /\ probe' = [probe EXCEPT !.op = "chain", !.before = fighters[0]]
    /\ calls' = calls + 1
    /\ UNCHANGED <<combo_trackers, hit_buffer, cooldown, fight_phase, outcome, yielded,
                   elapsed, ticks>>

\* fighter 0's receive_hit during an action; a hit taken while not blocking
\* interrupts the action
PhaseHit(d) ==
    /\ calls > 0 /\ probe.hits = 0
    /\ fighters[0].action # "NONE"
    /\ fighters' = [fighters EXCEPT ![0] = ReceiveHit(fighters[0], d * HU, "body",
                                                      fighters[1].x, FALSE, FALSE).f]
    /\ probe' = [probe EXCEPT !.op = "hit", !.before = fighters[0], !.hits = 1,
                              !.interrupted = @ \/ ~fighters[0].is_blocking]
    /\ UNCHANGED <<combo_trackers, hit_buffer, cooldown, fight_phase, outcome, yielded,
                   elapsed, ticks, calls>>

NextPhases ==
    \/ \E a \in ActionType : PhaseStart(a)
    \/ PhaseUpdate
    \/ \E a \in PhaseChains : PhaseChain(a)
    \/ \E d \in PhaseHits : PhaseHit(d)

SpecPhases == InitPhases /\ [][NextPhases]_vars

\* The same two fighters with updates that never stop coming: the game loop
\* calls update in every frame, so an update that can be taken is taken.  The
\* updates are not counted.

\* both fighters after update(dt, opponent)
PhaseUpdated == [i \in 0..1 |-> FighterUpdate(fighters[i], DT, fighters[1 - i].x)]

PhaseTick ==
    /\ calls > 0
    /\ fighters' = PhaseUpdated
    /\ probe' = [probe EXCEPT !.op = "update", !.before = fighters[0],
                              !.tired = @ /\ PhaseUpdated[0].is_exhausted]
    /\ UNCHANGED <<combo_trackers, hit_buffer, cooldown, fight_phase, outcome, yielded,
                   elapsed, ticks, calls>>

NextPhasesLive ==
    \/ \E a \in ActionType : PhaseStart(a)
    \/ PhaseTick
    \/ \E a \in PhaseChains : PhaseChain(a)
    \/ \E d \in PhaseHits : PhaseHit(d)

SpecPhasesLive == InitPhases /\ [][NextPhasesLive]_vars /\ WF_vars(PhaseTick)

-----------------------------------------------------------------------------
(* ai/fallback.py: FallbackAI.  The object (its last action, its repetition  *)
(* counter and its personality's aggression in tenths) is probe.ai;          *)
(* probe.recent holds the actions of its last four answers.  Stamina and     *)
(* health are in points.                                                     *)

MaxFallbackCalls == 5

\* _respond_to_attack
RespondToAttack(ai, opp_action, stamina) ==
    IF opp_action \in {"HOOK", "UPPERCUT"} /\ stamina >= 15 THEN "DODGE"
    ELSE IF opp_action \in {"HOOK", "UPPERCUT"} /\ stamina >= 12 THEN "BLOCK"
    ELSE IF stamina >= 8 /\ ai.aggression > 5 THEN "JAB"
    ELSE IF stamina >= 12 THEN "BLOCK"
    ELSE "JAB"

\* _desperate_mode
DesperateMode(stamina, opp_health, distance) ==
    IF opp_health < 30 /\ distance \in {"punch", "clinch"} /\ stamina >= 35 THEN "UPPERCUT"
    ELSE IF opp_health < 30 /\ distance \in {"punch", "clinch"} /\ stamina >= 28 THEN "HOOK"
    ELSE IF stamina >= 15 THEN "DODGE"
    ELSE IF stamina >= 12 THEN "BLOCK"
    ELSE "IDLE"

\* _finish_mode
FinishMode(stamina) ==
    IF stamina >= 35 THEN "UPPERCUT"
    ELSE IF stamina >= 28 THEN "HOOK"
    ELSE IF stamina >= 18 THEN "CROSS"
    ELSE IF stamina >= 8 THEN "JAB"
    ELSE "IDLE"

\* _punch_range_action
PunchRangeAction(ai, my_stamina) ==
    IF ai.last_action = "JAB" /\ my_stamina >= 18 THEN "CROSS"
    ELSE IF ai.last_action = "CROSS" /\ my_stamina >= 28 THEN "HOOK"
    ELSE "JAB"

\* _decide_action: the action, or "RAISE" where the call ends in a NameError
\* (line 114 reads random, which the module never imports)
DecideAction(ai, g) ==
    IF g.opp_action \in {"JAB", "CROSS", "HOOK", "UPPERCUT"}
    THEN RespondToAttack(ai, g.opp_action, g.my_stamina)
    ELSE IF g.my_health < 20 THEN DesperateMode(g.my_stamina, g.opp_health, g.distance)
    ELSE IF g.opp_health < 20 /\ g.distance \in {"punch", "clinch"}
    THEN FinishMode(g.my_stamina)
    ELSE IF g.my_stamina < 20 THEN "IDLE"
    ELSE IF g.distance = "far" THEN "RAISE"
    ELSE IF g.distance = "clinch"
    THEN (IF g.my_stamina >= 35 THEN "UPPERCUT"
          ELSE IF g.my_stamina >= 28 THEN "HOOK" ELSE "JAB")
    ELSE IF g.distance = "punch" THEN PunchRangeAction(ai, g.my_stamina)
    ELSE "JAB"

\* _get_alternative_action
GetAlternativeAction(current, stamina) ==
    LET next_action == CASE current = "JAB" -> "CROSS"
                         [] current = "CROSS" -> "HOOK"
                         [] OTHER -> "JAB"
    IN IF stamina >= ACTION_DATA[next_action].stamina_cost THEN next_action ELSE "JAB"

\* get_action with can_act true: [ai |-> the object afterwards, action |-> the
\* answer's action, or "RAISE"]
GetAction(ai, g) ==
    LET decided == DecideAction(ai, g)
        same == decided = ai.last_action
        count == IF same THEN ai.consecutive_same + 1 ELSE 0
        action == IF same /\ count > 3 THEN GetAlternativeAction(decided, g.my_stamina)
                  ELSE decided
    IN IF decided = "RAISE" THEN [ai |-> ai, action |-> "RAISE"]
       ELSE [ai |-> [ai EXCEPT !.last_action = action, !.consecutive_same = count],
             action |-> action]

\* the game states of the calls: _build_game_state's distance classes, health
\* and stamina on both sides of every threshold
GameStates ==
    [my_health : {10, 100}, my_stamina : {5, 10, 13, 19, 30, 100}, opp_health : {10, 100},
     distance : {"clinch", "punch", "medium", "far"}, opp_action : {"idle", "JAB", "HOOK"}]

\* the last four answers
Recent(recent, action) ==
    IF Len(recent) < 4 THEN Append(recent, action) ELSE Append(Tail(recent), action)

InitFallback ==
    /\ \E aggression \in {5, 8} :
          probe = [op |-> "init",
                   ai |-> [last_action |-> "NONE", consecutive_same |-> 0,
                           aggression |-> aggression],
                   recent |-> <<>>, action |-> "NONE"]
    /\ fighters = MatchFighters(FIGHTER2_START_X * PU)
    /\ combo_trackers = Pair(NewTracker, NewTracker)
    /\ hit_buffer = Pair(0, 0)
    /\ cooldown = Pair(0, 0)
    /\ fight_phase = "ACTIVE"
    /\ outcome = NoOutcome
    /\ yielded = Pair(0, 0)
    /\ elapsed = 0
    /\ ticks = 0
    /\ calls = 0

\* ai.get_action(g) that returns
CallGetAction(g) ==
    /\ calls < MaxFallbackCalls
    /\ GetAction(probe.ai, g).action # "RAISE"
    /\ probe' = [op |-> "get_action", ai |-> GetAction(probe.ai, g).ai,
                 recent |-> Recent(probe.recent, GetAction(probe.ai, g).action),
                 action |-> GetAction(probe.ai, g).action]
    /\ calls' = calls + 1
    /\ UNCHANGED <<fighters, combo_trackers, hit_buffer, cooldown, fight_phase, outcome,
                   yielded, elapsed, ticks>>

\* ai.get_action(g) that ends in the NameError: nothing is returned and the
\* object is as before
CallGetActionRaises(g) ==
    /\ calls < MaxFallbackCalls
    /\ GetAction(probe.ai, g).action = "RAISE"
    /\ probe' = [probe EXCEPT !.op = "raise", !.action = "RAISE"]
    /\ calls' = calls + 1
    /\ UNCHANGED <<fighters, combo_trackers, hit_buffer, cooldown, fight_phase, outcome,
                   yielded, elapsed, ticks>>

NextFallback ==
    \/ \E g \in GameStates : CallGetAction(g)
    \/ \E g \in GameStates : CallGetActionRaises(g)

SpecFallback == InitFallback /\ [][NextFallback]_vars

-----------------------------------------------------------------------------
(* FallbackAI.get_action as a function of the game state: a new FallbackAI    *)
(* is handed one game state, drawn at the start.                              *)

\* the game states of the call: stamina on both sides of every attack's cost
\* and of the thresholds of the rules, any action of the opponent
DecideStates ==
    [my_health : {10, 100},
     my_stamina : {0, 5, 8, 12, 15, 17, 18, 19, 20, 25, 27, 28, 34, 35, 100},
     opp_health : {10, 100},
     distance : {"clinch", "punch", "medium", "far"},
     opp_action : {"idle", "JAB", "CROSS", "HOOK", "UPPERCUT"}]

InitDecide ==
    /\ \E aggression \in {5, 8}, g \in DecideStates :
          probe = [op |-> "init",
                   ai |-> [last_action |-> "NONE", consecutive_same |-> 0,
                           aggression |-> aggression],
                   g |-> g, action |-> "NONE"]
    /\ fighters = MatchFighters(FIGHTER2_START_X * PU)
    /\ combo_trackers = Pair(NewTracker, NewTracker)
    /\ hit_buffer = Pair(0, 0)
    /\ cooldown = Pair(0, 0)
    /\ fight_phase = "ACTIVE"
    /\ outcome = NoOutcome
    /\ yielded = Pair(0, 0)
    /\ elapsed = 0
    /\ ticks = 0
    /\ calls = 0

\* ai.get_action(probe.g) that returns
CallDecide ==
    /\ probe.op = "init"
    /\ GetAction(probe.ai, probe.g).action # "RAISE"
    /\ probe' = [probe EXCEPT !.op = "get_action", !.ai = GetAction(probe.ai, probe.g).ai,
                              !.action = GetAction(probe.ai, probe.g).action]
    /\ UNCHANGED <<fighters, combo_trackers, hit_buffer, cooldown, fight_phase, outcome,
                   yielded, elapsed, ticks, calls>>

\* ai.get_action(probe.g) that ends in the NameError
CallDecideRaises ==
    /\ probe.op = "init"
    /\ GetAction(probe.ai, probe.g).action = "RAISE"
    /\ probe' = [probe EXCEPT !.op = "raise", !.action = "RAISE"]
    /\ UNCHANGED <<fighters, combo_trackers, hit_buffer, cooldown, fight_phase, outcome,
                   yielded, elapsed, ticks, calls>>

NextDecide ==
    \/ CallDecide
    \/ CallDecideRaises

SpecDecide == InitDecide /\ [][NextDecide]_vars

-----------------------------------------------------------------------------
(* core/state_machine.py and core/game.py: the StateMachine with the Game's   *)
(* handlers.  The game record holds the machine's fields and the Game's match *)
(* state; timers are in ms, health in points; an attribute that is not set    *)
(* yet is "NONE", or -1 where it names a fighter.  What the combat engine     *)
(* reports in a frame is a blow [who, damage] on fighter who, and what the    *)
(* menus report is an input.                                                  *)

GameStateNames ==
    {"MAIN_MENU", "CHARACTER_SELECT", "LLM_CONFIG", "PRE_FIGHT", "FIGHTING",
     "ROUND_END", "MATCH_END", "PAUSED", "SETTINGS"}

NewGame ==
    [current_state |-> "MAIN_MENU", previous_state |-> "NONE", fight_phase |-> "INTRO",
     transition_locked |-> FALSE, pending_transition |-> "NONE",
     round_number |-> 1, rounds_won |-> Pair(0, 0), round_timer |-> 0,
     intro_timer |-> 0, ready_timer |-> 0, hit_freeze_timer |-> 0,
     knockdown_timer |-> 0, ko_timer |-> 0, round_end_timer |-> 0,
     winner |-> -1, knocked_down |-> -1, health |-> Pair(100, 100)]

SetFightPhase(g, phase) ==
    IF g.current_state = "FIGHTING" THEN [g EXCEPT !.fight_phase = phase] ELSE g

EnterPreFight(g) ==
    [SetFightPhase([g EXCEPT !.round_number = 1, !.rounds_won = Pair(0, 0),
                             !.health = Pair(100, 100)], "INTRO")
        EXCEPT !.intro_timer = 3000]

EnterFighting(g) ==
    [SetFightPhase(g, "READY") EXCEPT !.round_timer = 180000, !.ready_timer = 1500]

EnterRoundEnd(g) ==
    LET winner == IF g.winner # -1 THEN g.winner
                  ELSE IF g.health[0] >= g.health[1] THEN 0 ELSE 1
    IN  [g EXCEPT !.rounds_won[winner] = @ + 1, !.round_end_timer = 3000]

\* the enter handler registered for a state; the others only show menus
EnterHandler(state, g) ==
    CASE state = "PRE_FIGHT" -> EnterPreFight(g)
      [] state = "FIGHTING" -> EnterFighting(g)
      [] state = "ROUND_END" -> EnterRoundEnd(g)
      [] OTHER -> g

\* transition_to that does not look at the lock
TransitionTo_Unlocked(g, new_state) ==
    IF new_state = g.current_state THEN g
    ELSE EnterHandler(new_state,
             [g EXCEPT !.previous_state = g.current_state,
                       !.current_state = new_state,
                       !.fight_phase = IF new_state = "FIGHTING" THEN "INTRO" ELSE @])

TransitionTo(g, new_state) ==
    IF g.transition_locked THEN [g EXCEPT !.pending_transition = new_state]
    ELSE IF new_state = g.current_state THEN g
    ELSE EnterHandler(new_state,
             [g EXCEPT !.previous_state = g.current_state,
                       !.current_state = new_state,
                       !.fight_phase = IF new_state = "FIGHTING" THEN "INTRO" ELSE @])

\* the blow of the frame lands; the engine's result is handled
HandleCombatResult(g, blow) ==
    IF blow.who = -1 THEN g
    ELSE LET struck == [g EXCEPT !.health[blow.who] = Max(0, @ - blow.damage)]
             frozen == IF blow.damage >= 25
                       THEN SetFightPhase([struck EXCEPT !.hit_freeze_timer = 50],
                                          "HIT_FREEZE")
                       ELSE struck
         IN  IF struck.health[blow.who] <= 0 \/ blow.damage >= 40
             THEN SetFightPhase(
                      [frozen EXCEPT !.knockdown_timer = 10000,
                                     !.knocked_down = IF blow.damage >= 40 THEN blow.who
                                                      ELSE -1],
                      "KNOCKDOWN")
             ELSE frozen

CheckRoundEnd(g) ==
    IF g.round_timer <= 0 THEN TransitionTo(g, "ROUND_END")
    ELSE IF \E i \in 0..1 : g.health[i] <= 0
    THEN LET i == IF g.health[0] <= 0 THEN 0 ELSE 1
         IN  SetFightPhase([g EXCEPT !.ko_timer = 3000, !.winner = 1 - i], "KO")
    ELSE g

HandleKnockdownEnd(g) ==
    IF g.knocked_down = -1 THEN g
    ELSE IF g.health[g.knocked_down] > 20 THEN SetFightPhase(g, "ACTIVE")
    ELSE SetFightPhase([g EXCEPT !.ko_timer = 3000, !.winner = 1 - g.knocked_down], "KO")

UpdateFighting(g, dt, blow) ==
    CASE g.fight_phase = "READY" ->
            IF g.ready_timer - dt <= 0
            THEN SetFightPhase([g EXCEPT !.ready_timer = @ - dt], "ACTIVE")
            ELSE [g EXCEPT !.ready_timer = @ - dt]
      [] g.fight_phase = "ACTIVE" ->
            CheckRoundEnd(HandleCombatResult([g EXCEPT !.round_timer = @ - dt], blow))
      [] g.fight_phase = "HIT_FREEZE" ->
            IF g.hit_freeze_timer - dt <= 0
            THEN SetFightPhase([g EXCEPT !.hit_freeze_timer = @ - dt], "ACTIVE")
            ELSE [g EXCEPT !.hit_freeze_timer = @ - dt]
      [] g.fight_phase = "KNOCKDOWN" ->
            IF g.knockdown_timer - dt <= 0
            THEN HandleKnockdownEnd([g EXCEPT !.knockdown_timer = @ - dt])
            ELSE [g EXCEPT !.knockdown_timer = @ - dt]
      [] g.fight_phase = "KO" ->
            IF g.ko_timer - dt <= 0
            THEN TransitionTo([g EXCEPT !.ko_timer = @ - dt], "ROUND_END")
            ELSE [g EXCEPT !.ko_timer = @ - dt]
      [] OTHER -> g

\* the update handler registered for the current state
UpdateHandler(g, dt, input, blow) ==
    CASE g.current_state = "MAIN_MENU" ->
            IF input = "confirm" THEN TransitionTo(g, "CHARACTER_SELECT") ELSE g
      [] g.current_state = "CHARACTER_SELECT" ->
            IF input = "confirm" THEN TransitionTo(g, "LLM_CONFIG") ELSE g
      [] g.current_state = "LLM_CONFIG" ->
            IF input = "confirm" THEN TransitionTo(g, "PRE_FIGHT") ELSE g
      [] g.current_state = "PRE_FIGHT" ->
            IF g.intro_timer - dt <= 0
            THEN TransitionTo([g EXCEPT !.intro_timer = @ - dt], "FIGHTING")
            ELSE [g EXCEPT !.intro_timer = @ - dt]
      [] g.current_state = "FIGHTING" -> UpdateFighting(g, dt, blow)
      [] g.current_state = "ROUND_END" ->
            IF g.round_end_timer - dt > 0 THEN [g EXCEPT !.round_end_timer = @ - dt]
            ELSE IF g.rounds_won[0] >= 2 \/ g.rounds_won[1] >= 2
            THEN TransitionTo([g EXCEPT !.round_end_timer = @ - dt], "MATCH_END")
            ELSE TransitionTo([g EXCEPT !.round_end_timer = @ - dt,
                                        !.round_number = @ + 1,
                                        !.health = Pair(100, 100)], "PRE_FIGHT")
      [] g.current_state = "MATCH_END" ->
            IF input = "confirm" THEN TransitionTo(g, "MAIN_MENU")
            ELSE IF input = "restart" THEN TransitionTo(g, "PRE_FIGHT")
            ELSE g
      [] g.current_state = "PAUSED" ->
            IF input = "resume" THEN TransitionTo(g, "FIGHTING")
            ELSE IF input = "restart" THEN TransitionTo(g, "PRE_FIGHT")
            ELSE IF input = "quit" THEN TransitionTo(g, "MAIN_MENU")
            ELSE g
      [] OTHER -> g

MachineUpdate(g, dt, input, blow) ==
    LET handled == UpdateHandler(g, dt, input, blow)
    IN  IF handled.pending_transition # "NONE" /\ ~handled.transition_locked
        THEN TransitionTo([handled EXCEPT !.pending_transition = "NONE"],
                          handled.pending_transition)
        ELSE handled

GameUpdate(g, dt, pause, input, blow) ==
    MachineUpdate(IF pause /\ g.current_state = "FIGHTING" THEN TransitionTo(g, "PAUSED")
                  ELSE IF pause /\ g.current_state = "PAUSED"
                  THEN TransitionTo(g, "FIGHTING")
                  ELSE g,
                  dt, input, blow)

-----------------------------------------------------------------------------
(* The Game driven frame by frame from its main menu: a frame without input,  *)
(* a frame in which pause was pressed, and a frame in which the menu on       *)
(* screen reports an input.  probe.game is the game, probe.op the input of    *)
(* the last frame.                                                            *)

MaxGameFrames == 14

\* frame times: a ready phase, and half a round
GameDts == {1500, 90000}

\* no blow, a big hit, a knockdown
GameBlows ==
    {[who |-> -1, damage |-> 0]} \cup [who : 0..1, damage : {30, 60}]

\* the inputs the menu of a state reads
MenuInputs(state) ==
    CASE state \in {"MAIN_MENU", "CHARACTER_SELECT", "LLM_CONFIG"} -> {"confirm"}
      [] state = "MATCH_END" -> {"confirm", "restart"}
      [] state = "PAUSED" -> {"resume", "restart", "quit"}
      [] OTHER -> {}

InitGame ==
    /\ probe = [op |-> "init", game |-> NewGame]
    /\ fighters = MatchFighters(FIGHTER2_START_X * PU)
    /\ combo_trackers = Pair(NewTracker, NewTracker)
    /\ hit_buffer = Pair(0, 0)
    /\ cooldown = Pair(0, 0)
    /\ fight_phase = "ACTIVE"
    /\ outcome = NoOutcome
    /\ yielded = Pair(0, 0)
    /\ elapsed = 0
    /\ ticks = 0
    /\ calls = 0

\* Game._update with no input
GameFrame ==
    /\ ticks < MaxGameFrames
    /\ \E dt \in GameDts, blow \in GameBlows :
          probe' = [op |-> "none", game |-> GameUpdate(probe.game, dt, FALSE, "none", blow)]
    /\ ticks' = ticks + 1
    /\ UNCHANGED <<fighters, combo_trackers, hit_buffer, cooldown, fight_phase, outcome,
                   yielded, elapsed, calls>>

\* Game._update with pause just pressed, during the fight or the pause
GamePause ==
    /\ ticks < MaxGameFrames
    /\ probe.game.current_state \in {"FIGHTING", "PAUSED"}
    /\ \E dt \in GameDts, blow \in GameBlows :
          probe' = [op |-> "pause", game |-> GameUpdate(probe.game, dt, TRUE, "none", blow)]
    /\ ticks' = ticks + 1
    /\ UNCHANGED <<fighters, combo_trackers, hit_buffer, cooldown, fight_phase, outcome,
                   yielded, elapsed, calls>>

\* Game._update with an input to the menu on screen
GameMenu ==
    /\ ticks < MaxGameFrames
    /\ \E input \in MenuInputs(probe.game.current_state), dt \in GameDts :
          probe' = [op |-> input,
                    game |-> GameUpdate(probe.game, dt, FALSE, input,
                                        [who |-> -1, damage |-> 0])]
    /\ ticks' = ticks + 1
    /\ UNCHANGED <<fighters, combo_trackers, hit_buffer, cooldown, fight_phase, outcome,
                   yielded, elapsed, calls>>

NextGame ==
    \/ GameFrame
    \/ GamePause
    \/ GameMenu

SpecGame == InitGame /\ [][NextGame]_vars

-----------------------------------------------------------------------------
(* The StateMachine of a Game driven through transition_to, lock_transition,  *)
(* unlock_transition and update in any order, from the state after            *)
(* construction.  probe.before is the game before the call, probe.arg the     *)
(* state handed to transition_to; calls counts the calls.                     *)

MaxMachineCalls == 6

InitMachine ==
    /\ probe = [op |-> "init", arg |-> "NONE", before |-> NewGame, game |-> NewGame]
    /\ fighters = MatchFighters(FIGHTER2_START_X * PU)
    /\ combo_trackers = Pair(NewTracker, NewTracker)
    /\ hit_buffer = Pair(0, 0)
    /\ cooldown = Pair(0, 0)
    /\ fight_phase = "ACTIVE"
    /\ outcome = NoOutcome
    /\ yielded = Pair(0, 0)
    /\ elapsed = 0
    /\ ticks = 0
    /\ calls = 0

\* state_machine.transition_to(new_state)
CallTransitionTo ==
    /\ calls < MaxMachineCalls
    /\ \E new_state \in GameStateNames :
          probe' = [op |-> "transition_to", arg |-> new_state, before |-> probe.game,
                    game |-> TransitionTo(probe.game, new_state)]
    /\ calls' = calls + 1
    /\ UNCHANGED <<fighters, combo_trackers, hit_buffer, cooldown, fight_phase, outcome,
                   yielded, elapsed, ticks>>

\* state_machine.lock_transition()
CallLockTransition ==
    /\ calls < MaxMachineCalls
    /\ probe' = [op |-> "lock_transition", arg |-> "NONE", before |-> probe.game,
                 game |-> [probe.game EXCEPT !.transition_locked = TRUE]]
    /\ calls' = calls + 1
    /\ UNCHANGED <<fighters, combo_trackers, hit_buffer, cooldown, fight_phase, outcome,
                   yielded, elapsed, ticks>>

\* state_machine.unlock_transition()
CallUnlockTransition ==
    /\ calls < MaxMachineCalls
    /\ probe' = [op |-> "unlock_transition", arg |-> "NONE", before |-> probe.game,
                 game |-> [probe.game EXCEPT !.transition_locked = FALSE]]
    /\ calls' = calls + 1
    /\ UNCHANGED <<fighters, combo_trackers, hit_buffer, cooldown, fight_phase, outcome,
                   yielded, elapsed, ticks>>

\* state_machine.update(dt), with what the handler of the state finds
CallMachineUpdate ==
    /\ calls < MaxMachineCalls
    /\ \E dt \in GameDts, blow \in GameBlows,
          input \in MenuInputs(probe.game.current_state) \cup {"none"} :
          probe' = [op |-> "update", arg |-> "NONE", before |-> probe.game,
                    game |-> MachineUpdate(probe.game, dt, input, blow)]
    /\ calls' = calls + 1
    /\ UNCHANGED <<fighters, combo_trackers, hit_buffer, cooldown, fight_phase, outcome,
                   yielded, elapsed, ticks>>

NextMachine ==
    \/ CallTransitionTo
    \/ CallLockTransition
    \/ CallUnlockTransition
    \/ CallMachineUpdate

SpecMachine == InitMachine /\ [][NextMachine]_vars

-----------------------------------------------------------------------------
(* The MovementController of fighter 0 driven through update, set_position,   *)
(* advance, retreat, walk_forward, walk_backward, stop and apply_knockback in *)
(* any order, from the fighter's starting position; the opponent stands at    *)
(* fighters[1].x.  probe.unclamped is the x the last update computed before   *)
(* the clamp.                                                                 *)

MaxMoveCalls == 5

\* frame times: one frame, and a long one
MoveDts == {DT, 500}

\* positions handed to set_position, in pixels: outside and inside the ring
MovePositions == {0, 190, 195, 1085, 1090, 2000}

\* distances of advance and retreat, in pixels
MoveDistances == {20, 200}

InitMove ==
    /\ fighters = MatchFighters(FIGHTER2_START_X * PU)
    /\ probe = [op |-> "init", unclamped |-> FIGHTER1_START_X * PU]
    /\ combo_trackers = Pair(NewTracker, NewTracker)
    /\ hit_buffer = Pair(0, 0)
    /\ cooldown = Pair(0, 0)
    /\ fight_phase = "ACTIVE"
    /\ outcome = NoOutcome
    /\ yielded = Pair(0, 0)
    /\ elapsed = 0
    /\ ticks = 0
    /\ calls = 0

\* what a call of the controller leaves alone
MoveFrame ==
    /\ calls < MaxMoveCalls
    /\ calls' = calls + 1
    /\ UNCHANGED <<combo_trackers, hit_buffer, cooldown, fight_phase, outcome, yielded,
                   elapsed, ticks>>

\* movement.update(dt, opponent_x)
MoveUpdate ==
    /\ MoveFrame
    /\ \E dt \in MoveDts :
          /\ fighters' = [fighters EXCEPT ![0] = MovementUpdate(@, dt, fighters[1].x)]
          /\ probe' = [op |-> "update", unclamped |-> Displaced(fighters[0], dt).x]

\* movement.set_position(x)
MoveSetPosition ==
    /\ MoveFrame
    /\ \E x \in MovePositions :
          /\ fighters' = [fighters EXCEPT ![0] = SetPosition(@, x * PU)]
          /\ probe' = [op |-> "set_position", unclamped |-> x * PU]

\* movement.advance(distance), movement.retreat(distance)
MoveToTarget ==
    /\ MoveFrame
    /\ \E distance \in MoveDistances :
          \/ fighters' = [fighters EXCEPT ![0] = Advance(@, distance)]
          \/ fighters' = [fighters EXCEPT ![0] = Retreat(@, distance)]
    /\ probe' = [probe EXCEPT !.op = "target"]

\* movement.walk_forward(), movement.walk_backward(), movement.stop()
MoveWalk ==
    /\ MoveFrame
    /\ \/ \E forward \in BOOLEAN : fighters' = [fighters EXCEPT ![0] = Walk(@, forward)]
       \/ fighters' = [fighters EXCEPT ![0] = Stop(@)]
    /\ probe' = [probe EXCEPT !.op = "walk"]

\* movement.apply_knockback(force, from_right), plain, blocked and critical
MoveKnockback ==
    /\ MoveFrame
    /\ \E tenths \in {3, 10, 15}, from_right \in BOOLEAN :
          fighters' = [fighters EXCEPT
                          ![0] = ApplyKnockback(@, (KNOCKBACK_FORCE * PU * tenths) \div 10,
                                                from_right)]
    /\ probe' = [probe EXCEPT !.op = "knockback"]

NextMove ==
    \/ MoveUpdate
    \/ MoveSetPosition
    \/ MoveToTarget
    \/ MoveWalk
    \/ MoveKnockback

SpecMove == InitMove /\ [][NextMove]_vars

-----------------------------------------------------------------------------
(* Claims checked under SpecFighter *)

\* C1: in every state reachable by any sequence of execute_action, update,
\* receive_hit and reset_round, 0 <= health <= max_health and
\* 0 <= stamina <= max_stamina
C1_Conservation ==
    \A i \in 0..1 :
        /\ 0 <= fighters[i].health /\ fighters[i].health <= fighters[i].max_health
        /\ 0 <= fighters[i].stamina /\ fighters[i].stamina <= fighters[i].max_stamina

\* a hit worth more than the remaining health has just landed on a fighter that
\* had spent its last stamina
C1_Witness ==
    /\ probe.op = "receive_hit"
    /\ DamageBeforeCap(probe.before, (200 * HU * HEAD_DAMAGE_MULT) \div 10, FALSE, FALSE)
          > probe.before.health
    /\ probe.before.health > 0
    /\ fighters[0].health = 0
    /\ fighters[0].stamina = 0 /\ probe.before.action # "NONE"

\* the three rejections of the claim: stunned, busy outside RECOVERY, or in
\* RECOVERY with an action that cannot be chained
C5_Stunned(b) == b.is_stunned
C5_Busy(b) == b.action # "NONE" /\ b.phase # "RECOVERY"
C5_NoChain(b, a) == b.action # "NONE" /\ b.phase = "RECOVERY" /\ ACTION_DATA[a].can_chain <= 1

\* C5: execute_action on a fighter that is stunned, or has a current action not
\* in RECOVERY, or is in RECOVERY with an action that is not chain-eligible,
\* returns failure and leaves stamina, current action, queue, position and
\* movement target, hurt pose and blocking flag unchanged
C5_RejectionUnchanged ==
    (/\ probe.op = "execute"
     /\ \/ C5_Stunned(probe.before)
        \/ C5_Busy(probe.before)
        \/ C5_NoChain(probe.before, probe.action))
    => /\ ~probe.ok
       /\ LET f == fighters[0]
              b == probe.before
          IN /\ f.stamina = b.stamina
             /\ f.action = b.action /\ f.phase = b.phase /\ f.frame = b.frame
             /\ f.has_hit = b.has_hit /\ f.hitbox_active = b.hitbox_active
             /\ f.action_queue = b.action_queue
             /\ f.x = b.x /\ f.target_x = b.target_x /\ f.mstate = b.mstate
             /\ f.pose = b.pose
             /\ f.is_blocking = b.is_blocking

\* a costly action was refused in RECOVERY because it cannot be chained, by a
\* fighter that could have paid for it
C5_Witness ==
    /\ probe.op = "execute" /\ ~probe.ok
    /\ C5_NoChain(probe.before, probe.action) /\ ~C5_Stunned(probe.before)
    /\ ACTION_DATA[probe.action].stamina_cost > 0
    /\ probe.before.stamina > 0

\* C6: for a fighter that can act and has no current action, execute_action of
\* an action of cost c succeeds with stamina reduced by c when stamina >= c,
\* succeeds with stamina exactly 0 when 0 < stamina < c, and is rejected, with
\* no state change, only when stamina is 0 and c > 0
C6_PartialStaminaSpend ==
    (/\ probe.op = "execute"
     /\ StatsCanAct(probe.before)
     /\ probe.before.action = "NONE")
    => LET c == ACTION_DATA[probe.action].stamina_cost * SU
           b == probe.before
           f == fighters[0]
       IN /\ b.stamina >= c => (probe.ok /\ f.stamina = b.stamina - c)
          /\ (0 < b.stamina /\ b.stamina < c) => (probe.ok /\ f.stamina = 0)
          /\ ~probe.ok <=> (b.stamina = 0 /\ c > 0)
          /\ ~probe.ok => f = b

\* an action was started on less stamina than it costs
C6_Witness ==
    /\ probe.op = "execute" /\ probe.ok
    /\ StatsCanAct(probe.before) /\ probe.before.action = "NONE"
    /\ 0 < probe.before.stamina
    /\ probe.before.stamina < ACTION_DATA[probe.action].stamina_cost * SU
    /\ fighters[0].stamina = 0 /\ fighters[0].action = probe.action

-----------------------------------------------------------------------------
(* Claims checked under SpecHit *)

\* the zones of the hurt-regions of the call that the hit-region overlaps
OverlappedZones ==
    LET h_rect == GetRect(probe.hitbox, probe.attacker_x, RING_FLOOR_Y, probe.attacker_facing)
    IN {probe.hurtboxes[i].zone : i \in
            {j \in 1..Len(probe.hurtboxes) :
                Overlaps(h_rect, GetRect(probe.hurtboxes[j], probe.defender_x, RING_FLOOR_Y,
                                         probe.defender_facing))}}

\* C4: check_hit returns HEAD whenever the hit-region overlaps a head
\* hurt-region, whatever else overlaps and whatever the order of the list, BODY
\* when it overlaps body but not head, LEGS only when it overlaps legs alone,
\* and no hit when nothing overlaps
C4_PriorityTieBreak ==
    (probe.op = "check_hit" /\ probe.done) =>
        /\ "head" \in OverlappedZones => probe.result = "head"
        /\ ("body" \in OverlappedZones /\ "head" \notin OverlappedZones)
              => probe.result = "body"
        /\ OverlappedZones = {"legs"} <=> probe.result = "legs"
        /\ OverlappedZones = {} <=> probe.result = "none"

\* head was returned although legs and body overlap too and stand before the
\* head in the list
C4_Witness ==
    /\ probe.op = "check_hit" /\ probe.done
    /\ OverlappedZones = {"head", "body", "legs"}
    /\ probe.hurtboxes[1].zone = "legs" /\ probe.hurtboxes[2].zone = "body"
    /\ probe.result = "head"

-----------------------------------------------------------------------------
(* Claims checked under SpecDamage *)

-----------------------------------------------------------------------------
(* Claims checked under SpecCombo *)

\* C9: over any sequence of add_hit and update calls the count changes only by
\* +1, on add_hit, or by a reset to 0; it is 0 once 0.8 s have elapsed since the
\* last add_hit; it never takes a smaller non-zero value than before
C9_ComboMonotonicity ==
    /\ [](elapsed >= combo_timeout => combo_trackers[0].current_count = 0)
    /\ [][LET before == combo_trackers[0].current_count
              after == combo_trackers'[0].current_count
          IN /\ probe'.op = "add_hit" => after = before + 1
             /\ probe'.op # "add_hit" => (after = before \/ after = 0)
             /\ after < before => after = 0]_vars

\* a combo of two or more hits has just run out in an update, 0.8 s or more
\* after its last hit
C9_Witness ==
    /\ probe.op = "update" /\ probe.before >= 2
    /\ combo_trackers[0].current_count = 0
    /\ elapsed >= combo_timeout

\* C10: after every add_hit, update and reset, in any order, current_count > 0
\* holds exactly when combo_timer > 0
C10_CountIffTimer ==
    \A i \in 0..1 : combo_trackers[i].current_count > 0 <=> combo_trackers[i].combo_timer > 0

\* a running combo part of the way through its window after an update
C10_Witness ==
    /\ probe.op = "update"
    /\ combo_trackers[0].current_count > 1
    /\ combo_trackers[0].combo_timer > 0
    /\ combo_trackers[0].combo_timer < combo_timeout

-----------------------------------------------------------------------------
(* Claims checked under Spec *)

\* C2: in any tick in which both fighters have an ACTIVE, not-yet-struck attack
\* whose hit-region overlaps the other's hurt-regions, CombatEngine.update
\* reports a trade with two entries
C2_TradeSymmetry ==
    (outcome.overlap[0] /\ outcome.overlap[1])
        => (outcome.type = "trade" /\ Len(outcome.hits) = 2)

\* C3: for every started attack, between its execute_action and its completion
\* or cancellation, check_hit_against yields a hit at most once
C3_OneHitPerWindow == \A i \in 0..1 : yielded[i] <= 1

\* an attack has yielded its hit and is still ACTIVE over the defender a tick later
C3_Witness ==
    \E i \in 0..1 :
        /\ yielded[i] = 1
        /\ fighters[i].action \in Attacks /\ fighters[i].phase = "ACTIVE"
        /\ fighters[i].has_hit /\ fighters[i].frame > ACTION_DATA[fighters[i].action].startup_frames + 1
        /\ StruckZone([fighters[i] EXCEPT !.has_hit = FALSE], fighters[1 - i]) # "none"

\* C8: whenever a combatant is hit as defender, its combo tracker has count 0,
\* accumulated damage 0 and an empty sequence immediately afterwards
C8_HitResetsDefenderCombo ==
    outcome.type = "hit" =>
        LET t == combo_trackers[outcome.hits[1].defender]
        IN t.current_count = 0 /\ t.total_damage = 0 /\ t.hit_sequence = <<>>

-----------------------------------------------------------------------------
(* Claims checked under SpecBout *)

\* the zones of B's hurt-regions that A's hit-region overlapped in the frame
BoutZones ==
    LET a == probe.before[0]
        b == probe.before[1]
        h_rect == GetRect(CreateHitbox(a.action, a.hitbox_facing), a.x, RING_FLOOR_Y,
                          a.facing_right)
        boxes == HurtboxSets[b.pose]
    IN {boxes[i].zone : i \in
            {j \in 1..Len(boxes) :
                Overlaps(h_rect, GetRect(boxes[j], b.x, RING_FLOOR_Y, b.facing_right))}}

\* a frame in which A's JAB, rolled 10 without a crit, by an A of power 1.0 that
\* is not exhausted, struck B (defense 1.0, at full health) in the body zone
\* alone as A's first hit
BoutJabLanded ==
    /\ probe.op = "tick" /\ outcome.type = "hit"
    /\ outcome.hits[1].attacker = 0 /\ outcome.hits[1].action = "JAB"
    /\ probe.rolls[0] = 10 /\ ~outcome.hits[1].is_crit /\ ~outcome.hits[1].is_counter
    /\ probe.before[0].power = DEFAULT_POWER /\ ~probe.before[0].is_exhausted
    /\ probe.before[1].defense = DEFAULT_DEFENSE
    /\ probe.before[1].health = probe.before[1].max_health
    /\ BoutZones = {"body"}
    /\ probe.counts[0] = 0

\* C11: A (power 1.0, stamina 100) executes JAB against idle B (defense 1.0),
\* the hit-region overlaps only B's body zone, the roll is 10 and there is no
\* crit: A's stamina is 92 right after execute, the reported final damage is
\* 10, B's health is max_health - 10 and A's reported combo count is 1
C11_UnguardedJab ==
    /\ (/\ probe.op = "execute" /\ probe.who = 0 /\ probe.action = "JAB"
        /\ probe.before.stamina = 100 * SU
        /\ FighterCanAct(probe.before))
       => (probe.ok /\ fighters[0].stamina = 92 * SU)
    /\ (/\ BoutJabLanded
        /\ probe.before[1].action = "NONE" /\ ~probe.before[1].is_blocking
        /\ probe.before[1].pose = "idle")
       => /\ outcome.hits[1].damage = 10 * HU /\ ~outcome.hits[1].inexact
          /\ fighters[1].health = fighters[1].max_health - 10 * HU
          /\ outcome.hits[1].combo_count = 1
          /\ ~outcome.hits[1].is_blocked

\* the jab of the scenario has landed on the idle B
C11_Witness ==
    /\ BoutJabLanded
    /\ probe.before[1].action = "NONE" /\ ~probe.before[1].is_blocking
    /\ probe.before[0].stamina > 92 * SU /\ probe.before[0].stamina < 93 * SU
    /\ fighters[1].health = 90 * HU

\* C12: the same jab (roll 10, body zone) against a B that is guarding: the
\* final damage is 3, B is still guarding and its current action is not
\* cancelled, the outcome is flagged blocked and A's combo count is 1
C12_GuardedJab ==
    (/\ BoutJabLanded
     /\ probe.before[1].is_blocking /\ probe.before[1].action = "BLOCK")
    => /\ outcome.hits[1].damage = 3 * HU /\ ~outcome.hits[1].inexact
       /\ fighters[1].is_blocking /\ fighters[1].action = "BLOCK"
       /\ outcome.hits[1].is_blocked
       /\ outcome.hits[1].combo_count = 1

-----------------------------------------------------------------------------
(* The reset contract, checked under SpecFighter *)

\* the cumulative statistics of a fighter
Cumulative(f) ==
    <<f.hits_landed, f.hits_taken, f.total_damage_dealt, f.total_damage_taken, f.max_combo,
      f.blocks_successful>>

\* a fighter whose round state is the one a round starts with
RoundFresh(f) ==
    /\ f.health = f.max_health /\ f.stamina = f.max_stamina
    /\ f.x = (IF f.is_player_one THEN FIGHTER1_START_X ELSE FIGHTER2_START_X) * PU
    /\ ~f.is_stunned /\ ~f.is_blocking
    /\ f.action = "NONE" /\ f.action_queue = <<>>
    /\ f.pose = "idle" /\ f.combo_count = 0

\* C14: after reset_round, from any state, health and stamina are at their
\* maximum, the position is the start position, the fighter is neither stunned
\* nor blocking, has no current or queued action, its pose is idle and its combo
\* count 0, and the cumulative statistics are unchanged; after reset_match the
\* same holds and the cumulative statistics are all 0
C14_ResetContract ==
    /\ probe.op = "reset_round" =>
          RoundFresh(fighters[0]) /\ Cumulative(fighters[0]) = Cumulative(probe.before)
    /\ probe.op = "reset_match" =>
          RoundFresh(fighters[0]) /\ Cumulative(fighters[0]) = <<0, 0, 0, 0, 0, 0>>

\* reset_round has just been called on a stunned, damaged fighter away from the
\* start position that has landed and taken hits, and the counts are still there
C14_Witness ==
    /\ probe.op = "reset_round"
    /\ probe.before.is_stunned
    /\ probe.before.health < probe.before.max_health
    /\ probe.before.x # FIGHTER1_START_X * PU
    /\ probe.before.hits_taken > 0 /\ probe.before.hits_landed > 0
    /\ fighters[0].hits_taken > 0 /\ fighters[0].hits_landed > 0

-----------------------------------------------------------------------------
(* Unknown action identifiers, checked under SpecFighter *)

\* C16: execute_action with an identifier that has no catalog entry returns
\* failure and leaves the fighter's state unchanged, whatever state the fighter
\* is in, and an action string of a decision that names none of the mapped
\* actions is converted to IDLE
C16_UnknownAction ==
    /\ probe.op = "execute_unknown" => (~probe.ok /\ fighters[0] = probe.before)
    /\ (probe.op = "decision" /\ Upper(probe.string) \notin ConvertKeys)
          => probe.action = "IDLE"

\* an unknown identifier has just been refused by a fighter that was free to act
\* and had stamina to spend
C16_Witness ==
    /\ probe.op = "execute_unknown" /\ ~probe.ok
    /\ StatsCanAct(probe.before) /\ probe.before.action = "NONE"
    /\ probe.before.stamina > 0

-----------------------------------------------------------------------------
(* The chain queue, checked under SpecFighter *)

\* a step that lengthens the queue is taken with the current action in RECOVERY
\* and appends an action whose catalog entry allows chaining
QueuedInRecovery ==
    Len(fighters'[0].action_queue) > Len(fighters[0].action_queue)
    => /\ fighters[0].action # "NONE" /\ fighters[0].phase = "RECOVERY"
       /\ LET a == fighters'[0].action_queue[Len(fighters'[0].action_queue)]
          IN a \in ActionType /\ ACTION_DATA[a].can_chain > 1

-----------------------------------------------------------------------------
(* Claims checked under SpecTwin *)

-----------------------------------------------------------------------------
(* Claims checked under SpecPhases *)

\* the frame thresholds of the action both fighters started
PhaseFrames ==
    LET d == ACTION_DATA[probe.action]
    IN [s |-> d.startup_frames, a |-> d.startup_frames + d.active_frames,
        r |-> d.startup_frames + d.active_frames + d.recovery_frames]

PhaseRank(phase) ==
    CASE phase = "STARTUP" -> 1 [] phase = "ACTIVE" -> 2 [] phase = "RECOVERY" -> 3
      [] OTHER -> 0

\* fighter i's action after ticks updates is where the thresholds put it
OnSchedule(i) ==
    LET f == fighters[i]
        t == PhaseFrames
        running == f.action = probe.action /\ f.frame = ticks
    IN /\ (1 <= ticks /\ ticks <= t.s) => (running /\ f.phase = "STARTUP")
       /\ (t.s < ticks /\ ticks <= t.a) => (running /\ f.phase = "ACTIVE")
       /\ (t.a < ticks /\ ticks <= t.r) => (running /\ f.phase = "RECOVERY")
       /\ ticks = t.r + 1 => (f.action = "NONE" \/ f.frame = 0)
       /\ (1 <= ticks /\ ticks <= t.r) =>
             (f.hitbox_active <=> (f.action \in Attacks /\ f.phase = "ACTIVE"))

\* C17: an accepted action with catalog frames (s, a, r) that is not interrupted
\* is, after k updates, in STARTUP for 1 <= k <= s, in ACTIVE for s < k <= s+a,
\* in RECOVERY for s+a < k <= s+a+r, and has ended at k = s+a+r+1; its phase
\* never goes backwards, and the hit-region of an attack is armed exactly in the
\* updates whose phase is ACTIVE
C17_PhaseProgression ==
    probe.op # "init" =>
        /\ OnSchedule(1)
        /\ ~probe.interrupted => OnSchedule(0)
        /\ (probe.op = "update" /\ fighters[0].action # "NONE"
                /\ fighters[0].frame = probe.before.frame + 1)
              => PhaseRank(fighters[0].phase) >= PhaseRank(probe.before.phase)

\* an attack has run through all its phases, hit-region armed in ACTIVE only,
\* and has ended in this update
C17_Witness ==
    /\ probe.op = "update" /\ probe.action \in Attacks /\ ~probe.interrupted
    /\ ticks = PhaseFrames.r + 1
    /\ probe.before.phase = "RECOVERY" /\ probe.before.action = probe.action
    /\ fighters[0].action = "NONE" /\ fighters[1].action = "NONE"

\* C18 as claimed: the same action takes strictly more updates to complete for
\* an exhausted fighter than for a non-exhausted fighter with the same base
\* speed: in the update in which the fresh fighter's action ends, the action of
\* the fighter that has been exhausted all along is still running
C18_ExhaustedSlower ==
    (/\ probe.op = "update" /\ calls = 1 /\ probe.hits = 0
     /\ probe.tired /\ ~fighters[1].is_exhausted
     /\ fighters[0].speed = fighters[1].speed
     /\ PhaseFrames.r > 0
     /\ ticks = PhaseFrames.r + 1 /\ fighters[1].action = "NONE")
    => fighters[0].action = probe.action

\* the update that completes fighter 0's action: its frame counter passes the
\* last recovery frame
Completes ==
    /\ probe.op = "update" /\ probe.before.action # "NONE"
    /\ probe.before.frame >= ACTION_DATA[probe.before.action].startup_frames
                             + ACTION_DATA[probe.before.action].active_frames
                             + ACTION_DATA[probe.before.action].recovery_frames

\* the first queued action has become the current action in this update, in
\* STARTUP and paid for out of the stamina the fighter had after regeneration
ChainStarted ==
    LET b == probe.before
        f == fighters[0]
        next == Head(b.action_queue)
    IN /\ f.action = next /\ f.phase = "STARTUP" /\ f.frame = 0
       /\ f.action_queue = Tail(b.action_queue)
       /\ f.stamina = Max(0, StatsUpdate(b, DT, FALSE).stamina
                             - ACTION_DATA[next].stamina_cost * SU)

\* C20 as claimed: in the update in which an action's recovery frames have
\* elapsed, a queued action becomes the current action (STARTUP, stamina
\* deducted) in the same update; with no queued action the fighter has no
\* current action and its pose is idle
C20_CompletionChains_Claimed ==
    Completes =>
        IF probe.before.action_queue # <<>> THEN ChainStarted
        ELSE fighters[0].action = "NONE" /\ fighters[0].pose = "idle"

\* C20: in the update in which an action's recovery frames have elapsed, a
\* queued action becomes the current action (STARTUP, stamina deducted) in the
\* same update if the fighter is able to act then (not stunned, health above 0);
\* otherwise the fighter has no current action and its pose is idle
C20_CompletionChains ==
    Completes =>
        IF probe.before.action_queue # <<>> /\ StatsCanAct(fighters[0]) THEN ChainStarted
        ELSE fighters[0].action = "NONE" /\ fighters[0].pose = "idle"

\* a queued JAB has just started in the update that completed the first action,
\* with a second one still queued behind it
C20_Witness ==
    /\ Completes /\ Len(probe.before.action_queue) = 2
    /\ fighters[0].action = "JAB" /\ fighters[0].phase = "STARTUP"
    /\ fighters[0].stamina < probe.before.stamina
    /\ Len(fighters[0].action_queue) = 1

-----------------------------------------------------------------------------
(* Claims checked under SpecFallback *)

\* C15 as claimed: FallbackAI.get_action, called with can_act true on any game
\* states, never answers with the same action on 4 consecutive calls
C15_RepetitionGuard ==
    Len(probe.recent) = 4 =>
        ~(\A k \in 2..4 : probe.recent[k] = probe.recent[1])

-----------------------------------------------------------------------------
(* Interruption by a hit, checked under SpecPhases *)

\* C21 as claimed: a hit with positive final damage on a fighter that is not in
\* a guarding pose cancels its current action, and a hit taken in the guarding
\* pose leaves the current action in place
C21_HitInterrupts ==
    (probe.op = "hit" /\ fighters[0].health < probe.before.health) =>
        IF probe.before.pose = "blocking"
        THEN fighters[0].action = probe.before.action
        ELSE fighters[0].action = "NONE"

-----------------------------------------------------------------------------
(* Guard break and the zone multiplier, checked under SpecBout *)

\* a frame in which A's attack, without crit or counter bonus, struck a B of
\* defense 1.0 that had health left for the whole damage
BoutPlainHit ==
    /\ probe.op = "tick" /\ outcome.type = "hit"
    /\ outcome.hits[1].attacker = 0
    /\ ~outcome.hits[1].is_crit /\ ~outcome.hits[1].is_counter
    /\ probe.before[1].defense = DEFAULT_DEFENSE
    /\ probe.before[1].health = probe.before[1].max_health

\* C22 as claimed: an attack whose catalog entry breaks guard (CROSS) that hits
\* a guarding defender clears the defender's guard flag, deals half of the
\* damage passed to the defender instead of 0.30 of it, and is not reported as
\* blocked
C22_GuardBreak ==
    (/\ BoutPlainHit
     /\ outcome.hits[1].action \in Attacks \ NonGuardBreaking
     /\ probe.before[1].is_blocking)
    => /\ ~fighters[1].is_blocking
       /\ 2 * outcome.hits[1].damage = outcome.hits[1].raw_damage
       /\ ~outcome.hits[1].is_blocked

\* C23 as claimed: the zone multiplier is applied once: the final damage of a
\* hit by an attacker of power 1.0 that is not exhausted on an unguarded
\* defender of defense 1.0 is roll * zone multiplier (1.5 head, 1.0 body, 0.8
\* legs)
C23_ZoneOnce ==
    (/\ BoutPlainHit
     /\ probe.before[0].power = DEFAULT_POWER /\ ~probe.before[0].is_exhausted
     /\ ~probe.before[1].is_blocking)
    => outcome.hits[1].damage
          = (probe.rolls[0] * HU * GetDamageMult(outcome.hits[1].hit_zone)) \div 10

\* C24 as claimed: the damage of a hit is multiplied by the attacker's
\* ComboTracker multiplier, 1 + 0.05 * (count - 1): A's second consecutive hit,
\* with the same roll on the same zone of the same unguarded defender and no
\* crit or counter bonus either time, deals more damage than the first
C24_ComboScales ==
    (/\ probe.op = "tick" /\ Len(probe.landed) = 2
     /\ probe.landed[2].hit.combo_count = 2
     /\ probe.landed[1].roll = probe.landed[2].roll
     /\ probe.landed[1].hit.action = probe.landed[2].hit.action
     /\ probe.landed[1].hit.hit_zone = probe.landed[2].hit.hit_zone
     /\ probe.landed[1].exhausted = probe.landed[2].exhausted
     /\ \A k \in 1..2 : /\ ~probe.landed[k].hit.is_crit /\ ~probe.landed[k].hit.is_counter
                        /\ ~probe.landed[k].guarded)
    => probe.landed[2].hit.damage > probe.landed[1].hit.damage

-----------------------------------------------------------------------------
(* Mirror symmetry of the collision test, checked under SpecHit *)

\* C25 as claimed: a left-facing attacker at x hits a defender at x - d exactly
\* when a right-facing attacker at x hits a defender at x + d, and in the same
\* zone: the call made with an attack's right-facing hit-region, the attacker
\* facing right and the defender facing it has the result of the mirrored call
C25_MirrorSymmetry ==
    \A a \in Attacks :
        (/\ probe.done /\ probe.hitbox = CreateHitbox(a, TRUE)
         /\ probe.attacker_facing /\ ~probe.defender_facing)
        => probe.result
              = CheckHit(CreateHitbox(a, FALSE), probe.hurtboxes,
                         probe.attacker_x, FALSE,
                         2 * probe.attacker_x - probe.defender_x, TRUE)

-----------------------------------------------------------------------------
(* Movement of an accepted action, checked under SpecFighter *)

\* C26 as claimed: when execute_action starts an action with movement delta m
\* (forward for attacks, backward for DODGE), the fighter's position has changed
\* by the full m, clamped to the ring, when execute_action returns
C26_ImmediateMove ==
    (/\ probe.op = "execute" /\ probe.ok
     /\ probe.before.action = "NONE"
     /\ ACTION_DATA[probe.action].move_distance # 0)
    => fighters[0].x
          = Clamp(probe.before.x
                    + (IF probe.before.facing_right THEN 1 ELSE -1)
                        * ACTION_DATA[probe.action].move_distance * PU)

-----------------------------------------------------------------------------
(* Exhaustion at the end of a tick, checked under SpecPhases *)

\* C27 as claimed: after the fighters' updates of a tick, including the start
\* of a queued action in the update that completes the current one, is_exhausted
\* is true exactly when stamina is below the exhaustion threshold
C27_ExhaustionDerived ==
    probe.op = "update" =>
        \A i \in 0..1 :
            fighters[i].is_exhausted <=> (fighters[i].stamina < EXHAUSTION_THRESHOLD * SU)

-----------------------------------------------------------------------------
(* Facing at collision resolution, checked under Spec *)

\* C28 as claimed: where a tick resolves collisions, the fighter with the
\* smaller x faces right and the other one faces left
C28_FacingEachOther ==
    (ticks > 0 /\ probe.op = "none" /\ fighters[0].x # fighters[1].x)
    => \A i \in 0..1 : fighters[i].facing_right <=> (fighters[i].x < fighters[1 - i].x)

-----------------------------------------------------------------------------
(* The order of the policy's rules, checked under SpecDecide *)

\* C29 as claimed: the threat response answers only to a HOOK or UPPERCUT of
\* the opponent: when the opponent's action is JAB or CROSS and own health is
\* below 20, the answer is the one of the desperation rule
C29_DesperationBeforeCounter ==
    (/\ probe.op = "get_action"
     /\ probe.g.opp_action \in {"JAB", "CROSS"}
     /\ probe.g.my_health < 20)
    => probe.action = DesperateMode(probe.g.my_stamina, probe.g.opp_health, probe.g.distance)

\* the attack of the highest damage among those whose stamina cost does not
\* exceed stamina, JAB if there is none
HeaviestFeasible(stamina) ==
    IF stamina >= ACTION_DATA["UPPERCUT"].stamina_cost THEN "UPPERCUT"
    ELSE IF stamina >= ACTION_DATA["HOOK"].stamina_cost THEN "HOOK"
    ELSE IF stamina >= ACTION_DATA["CROSS"].stamina_cost THEN "CROSS"
    ELSE "JAB"

\* C30 as claimed: when no earlier rule matches (the opponent is not attacking,
\* own health is not below 20, the opponent is not to be finished, stamina is
\* not below 20) and the distance is clinch, the answer is the attack of the
\* highest damage whose stamina cost does not exceed own stamina
C30_ClinchHeaviest ==
    (/\ probe.op = "get_action"
     /\ probe.g.opp_action = "idle"
     /\ probe.g.my_health >= 20 /\ probe.g.opp_health >= 20
     /\ probe.g.my_stamina >= 20
     /\ probe.g.distance = "clinch")
    => probe.action = HeaviestFeasible(probe.g.my_stamina)

\* C31 as claimed: when no earlier rule matches (the opponent is not attacking,
\* own health and stamina are not below 20) and the distance is far, get_action
\* returns a decision whose action is JAB
C31_FarJab ==
    (/\ probe.op # "init"
     /\ probe.g.opp_action = "idle"
     /\ probe.g.my_health >= 20 /\ probe.g.my_stamina >= 20
     /\ probe.g.distance = "far")
    => (probe.op = "get_action" /\ probe.action = "JAB")

-----------------------------------------------------------------------------
(* Guard lifetime, checked under SpecPhases *)

\* C32 as claimed: a fighter's blocking flag is true only while its current
\* action is BLOCK
C32_GuardLifetime ==
    \A i \in 0..1 : fighters[i].is_blocking => fighters[i].action = "BLOCK"

-----------------------------------------------------------------------------
(* The match across rounds, checked under SpecGame *)

\* C33 as claimed: the rounds won by each fighter persist from ROUND_END into
\* PRE_FIGHT (and from there into FIGHTING), so that round wins add up to the
\* two that end the match
C33_RoundsPersist ==
    [][(probe.game.current_state = "ROUND_END"
        /\ probe'.game.current_state = "PRE_FIGHT")
       => probe'.game.rounds_won = probe.game.rounds_won]_vars

\* C34 as claimed: a round that ends because the round timer reached 0, with
\* no fighter knocked out in it, is credited to the fighter with the higher
\* health (fighter 1 on a tie), whatever happened in earlier rounds
C34_TimeOutByHealth ==
    [][(/\ probe.game.current_state = "FIGHTING"
        /\ probe.game.fight_phase = "ACTIVE"
        /\ probe'.game.current_state = "ROUND_END"
        /\ probe'.game.round_timer <= 0
        /\ \A i \in 0..1 : probe'.game.health[i] > 0)
       => LET winner == IF probe'.game.health[0] >= probe'.game.health[1] THEN 0 ELSE 1
          IN  probe'.game.rounds_won =
                 [probe.game.rounds_won EXCEPT ![winner] = @ + 1]]_vars

\* C35 as claimed: a fight that is paused and then resumed from the pause menu
\* has the round timer and the fight phase it had when the pause began (the
\* pause itself changes neither)
C35_ResumeKeepsRound ==
    [][(/\ probe.game.current_state = "PAUSED"
        /\ probe'.op = "resume"
        /\ probe'.game.current_state = "FIGHTING")
       => (/\ probe'.game.round_timer = probe.game.round_timer
           /\ probe'.game.fight_phase = probe.game.fight_phase)]_vars

-----------------------------------------------------------------------------
(* The transition lock, checked under SpecMachine *)

\* C36: while transitions are locked, transition_to changes nothing but the
\* remembered state, which becomes the state just requested, and no call but
\* unlock_transition changes current_state or previous_state; the first update
\* after the unlock makes the remembered state the current state and forgets
\* it, running the enter handler once (entering FIGHTING leaves the phase
\* READY with a full round timer, entering ROUND_END credits one round)
C36_TransitionLock ==
    /\ (probe.op = "transition_to" /\ probe.before.transition_locked)
       => probe.game = [probe.before EXCEPT !.pending_transition = probe.arg]
    /\ (probe.before.transition_locked /\ probe.op \notin {"init", "unlock_transition"})
       => (/\ probe.game.current_state = probe.before.current_state
           /\ probe.game.previous_state = probe.before.previous_state
           /\ probe.game.transition_locked)
    /\ (/\ probe.op = "update"
        /\ ~probe.before.transition_locked
        /\ probe.before.pending_transition # "NONE")
       => (/\ probe.game.current_state = probe.before.pending_transition
           /\ probe.game.pending_transition = "NONE"
           /\ (/\ probe.before.pending_transition = "FIGHTING"
               /\ probe.before.current_state # "FIGHTING")
              => (/\ probe.game.fight_phase = "READY"
                  /\ probe.game.round_timer = 180000
                  /\ probe.game.ready_timer = 1500)
           /\ (/\ probe.before.pending_transition = "ROUND_END"
               /\ probe.before.current_state
                     \in {"MAIN_MENU", "CHARACTER_SELECT", "PRE_FIGHT", "FIGHTING",
                          "SETTINGS"})
              => (probe.game.rounds_won[0] + probe.game.rounds_won[1]
                    = probe.before.rounds_won[0] + probe.before.rounds_won[1] + 1))

\* a state was requested under the lock after another one, and the update
\* after the unlock has entered it
C36_Witness ==
    /\ probe.op = "update"
    /\ ~probe.before.transition_locked
    /\ probe.before.pending_transition = "ROUND_END"
    /\ probe.before.current_state = "MAIN_MENU"
    /\ probe.game.current_state = "ROUND_END"
    /\ probe.game.rounds_won[0] = 1

-----------------------------------------------------------------------------
(* Pose and action, checked under Spec *)

\* C37 as claimed: a fighter with no current action has the idle hurt-region
\* set, in every state between two frames of the match, also after a hit has
\* cancelled its attack
C37_PoseFollowsAction ==
    \A i \in 0..1 : fighters[i].action = "NONE" => fighters[i].pose = "idle"

-----------------------------------------------------------------------------
(* The ring bounds, checked under SpecMove *)

\* C38: after every update and every set_position of the MovementController,
\* whatever advance, retreat, walk and knockback came before, x lies within
\* [min_x, max_x]
C38_RingBounds ==
    probe.op \in {"update", "set_position"}
    => (min_x <= fighters[0].x /\ fighters[0].x <= max_x)

\* an update whose knockback or walk had carried x past an edge of the ring
C38_Witness ==
    /\ probe.op = "update"
    /\ (probe.unclamped < min_x \/ probe.unclamped > max_x)
    /\ fighters[0].x \in {min_x, max_x}

-----------------------------------------------------------------------------
(* Termination of actions and stuns, checked under SpecPhasesLive *)

\* an update changes neither fighter any more: every later update finds the
\* fighters as they are now
PhaseQuiescent == calls > 0 /\ PhaseUpdated = fighters

\* C39 as claimed: while updates keep coming and no further action is
\* requested, a fighter with a current action comes to have no current action
\* and an empty queue, and a stunned fighter that is not hit again comes to be
\* not stunned; so once the updates change nothing any more, the fighter has
\* no current action, an empty queue and no stun
C39_ActionsTerminate ==
    PhaseQuiescent
    => (/\ fighters[0].action = "NONE"
        /\ Len(fighters[0].action_queue) = 0
        /\ ~fighters[0].is_stunned)

====
